---- MODULE Spec2Model ----
(***************************************************************************)
(* ZX Spectrum emulator core (src/src/zx/zx.c): Z80 step and interrupt     *)
(* logic, 128K memory banking, I/O ports, tape engine, .z80 snapshot       *)
(* codec, TAP/TZX container parsers and the frame driver; and the audio    *)
(* sink (src/src/zx/zx.audio.c): its ring buffer and non-blocking flush.   *)
(*                                                                         *)
(* The emulator instance (ZXState) is the record-valued variable zx; each  *)
(* C function is an operator from ZXState to ZXState.  RAM and ROM banks   *)
(* are kept sparse: a bank is a function from the offsets that hold a      *)
(* non-zero byte to that byte, every other offset reads 0 (the instance is *)
(* zero-filled by zx_new).  The statics of the audio sink are the record   *)
(* audio.                                                                  *)
(***************************************************************************)
EXTENDS Integers, Sequences, FiniteSets, TLC

VARIABLES zx, frame, ret, obs, audio

vars == <<zx, frame, ret, obs, audio>>

(***************************************************************************)
(* Program constants                                                       *)
(***************************************************************************)
TSTATES_PER_FRAME_48K == 69888
TSTATES_PER_FRAME_128K == 70908
TSTATES_PER_LINE == 224
SCREEN_SIZE == 6912
MACHINE_48K == 0
MACHINE_128K == 1
MACHINE_PLUS2 == 2
RAM_BANK_SIZE == 16384
RAM_BANK_COUNT == 8
AY_CLOCK_DIVIDER == 16
AUDIO_SAMPLE_RATE == 44100
CPU_CLOCK == 3500000
(* Both rates are divided by 100 first so that the product fits 32 bits;   *)
(* the quotient is the same.                                               *)
AUDIO_SAMPLES_PER_FRAME ==
    ((TSTATES_PER_FRAME_128K * (AUDIO_SAMPLE_RATE \div 100)) \div (CPU_CLOCK \div 100)) + 32

ZX_AUDIO_RING_FRAMES == 8192
STEREO_BUFFER_LEN == 4096

TAPE_PHASE_STOP == 0
TAPE_PHASE_PILOT == 1
TAPE_PHASE_SYNC1 == 2
TAPE_PHASE_SYNC2 == 3
TAPE_PHASE_DATA == 4
TAPE_PHASE_PAUSE == 5

(***************************************************************************)
(* Fixed-width arithmetic                                                  *)
(***************************************************************************)
Pow2(n) == 2 ^ n

U8(v) == v % 256

U16(v) == v % 65536

Shr(v, n) == v \div Pow2(n)

Bit(v, n) == (v \div Pow2(n)) % 2

RECURSIVE BitAnd(_, _)
BitAnd(x, y) ==
    IF x = 0 \/ y = 0 THEN 0
    ELSE (x % 2) * (y % 2) + 2 * BitAnd(x \div 2, y \div 2)

BitOr(x, y) == x + y - BitAnd(x, y)

rd16le(s, p) == s[p + 1] + 256 * s[p + 2]

rd24le(s, p) == s[p + 1] + 256 * s[p + 2] + 65536 * s[p + 3]

rd32le(s, p) == s[p + 1] + 256 * s[p + 2] + 65536 * s[p + 3] + 16777216 * s[p + 4]

(* Sparse bank: offsets absent from the domain hold 0. *)
EmptyBank == [o \in {} |-> 0]

BankGet(bank, off) == IF off \in DOMAIN bank THEN bank[off] ELSE 0

BankSet(bank, off, v) ==
    IF v = 0
    THEN [o \in (DOMAIN bank) \ {off} |-> bank[o]]
    ELSE [o \in (DOMAIN bank) \cup {off} |-> IF o = off THEN v ELSE bank[o]]

(* Bank holding the bytes of sequence s at offsets 0 .. Len(s)-1. *)
BankOfSeq(s) ==
    [o \in {k \in 0 .. (Len(s) - 1) : s[k + 1] # 0} |-> s[o + 1]]

(***************************************************************************)
(* Memory access (banked)                                                  *)
(***************************************************************************)
MapRom(n) == [rom |-> TRUE, bank |-> n]

MapRam(n) == [rom |-> FALSE, bank |-> n]

(* update_memory_mapping with ROM bank 0 always mapped at 0x0000. *)
update_memory_mapping_rom0(z) ==
    IF z.machine_type = MACHINE_48K
    THEN [z EXCEPT !.mem_map = <<MapRom(0), MapRam(5), MapRam(2), MapRam(0)>>,
                   !.mem_writable = <<0, 1, 1, 1>>,
                   !.active_screen = 0]
    ELSE LET ram_page == z.port_7ffd % 8
             screen_sel == Bit(z.port_7ffd, 3)
         IN [z EXCEPT !.mem_map = <<MapRom(0), MapRam(5), MapRam(2), MapRam(ram_page)>>,
                      !.mem_writable = <<0, 1, 1, 1>>,
                      !.screen_dirty = IF z.active_screen # screen_sel THEN 1 ELSE @,
                      !.active_screen = screen_sel]

update_memory_mapping(z) ==
    IF z.machine_type = MACHINE_48K
    THEN [z EXCEPT !.mem_map = <<MapRom(0), MapRam(5), MapRam(2), MapRam(0)>>,
                   !.mem_writable = <<0, 1, 1, 1>>,
                   !.active_screen = 0]
    ELSE LET ram_page == z.port_7ffd % 8
             screen_sel == Bit(z.port_7ffd, 3)
             rom_sel == Bit(z.port_7ffd, 4)
         IN [z EXCEPT !.mem_map = <<MapRom(rom_sel), MapRam(5), MapRam(2), MapRam(ram_page)>>,
                      !.mem_writable = <<0, 1, 1, 1>>,
                      !.screen_dirty = IF z.active_screen # screen_sel THEN 1 ELSE @,
                      !.active_screen = screen_sel]

mem_read(z, addr) ==
    LET region == Shr(addr, 14)
        offset == addr % 16384
        m == z.mem_map[region + 1]
    IN IF m.rom THEN BankGet(z.rom_banks[m.bank], offset)
       ELSE BankGet(z.ram_banks[m.bank], offset)

mem_write_unprotected(z, addr, value) ==
    LET region == Shr(addr, 14)
        offset == addr % 16384
        m == z.mem_map[region + 1]
    IN IF m.rom
       THEN [z EXCEPT !.rom_banks[m.bank] = BankSet(@, offset, value)]
       ELSE [z EXCEPT !.ram_banks[m.bank] = BankSet(@, offset, value)]

mem_write(z, addr, value) ==
    LET region == Shr(addr, 14)
        offset == addr % 16384
        m == z.mem_map[region + 1]
    IN IF z.mem_writable[region + 1] = 0 THEN z
       ELSE LET z1 == IF m.rom
                      THEN [z EXCEPT !.rom_banks[m.bank] = BankSet(@, offset, value)]
                      ELSE [z EXCEPT !.ram_banks[m.bank] = BankSet(@, offset, value)]
                dirty1 == region = 1 /\ offset < SCREEN_SIZE
                dirty3 == /\ region = 3 /\ offset < SCREEN_SIZE
                          /\ z.machine_type # MACHINE_48K /\ z.port_7ffd % 8 = 7
            IN [z1 EXCEPT !.screen_dirty = IF dirty1 \/ dirty3 THEN 1 ELSE @]

mem_read16(z, addr) == mem_read(z, addr) + 256 * mem_read(z, U16(addr + 1))

mem_write16(z, addr, value) ==
    mem_write(mem_write(z, addr, value % 256), U16(addr + 1), Shr(value, 8))

push16(z, value) ==
    LET z1 == [z EXCEPT !.sp = U16(z.sp - 2)]
    IN mem_write16(z1, z1.sp, value)

(***************************************************************************)
(* Tape playback (EAR input)                                               *)
(***************************************************************************)
CurBlock(z) == z.tape.blocks[z.tape.block_idx + 1]

(* tape_free_state leaving the cached flag as it is. *)
tape_free_state_keep_active(z) ==
    [z EXCEPT !.tape.blocks = <<>>, !.tape.block_count = 0, !.tape.loaded = 0]

tape_free_state(z) ==
    [z EXCEPT !.tape.blocks = <<>>, !.tape.block_count = 0,
              !.tape.loaded = 0, !.tape_active = 0]

tape_rewind(z) ==
    [z EXCEPT !.tape.block_idx = 0, !.tape.byte_idx = 0, !.tape.bit_idx = 0,
              !.tape.ear_level = 1, !.tape.tstates_rem = 0, !.tape.pilot_rem = 0,
              !.tape.phase = TAPE_PHASE_STOP, !.tape.pulse_in_bit = 0,
              !.tape.autostarted = 0]

tape_block_at_end(z) ==
    IF z.tape.block_idx >= z.tape.block_count THEN TRUE
    ELSE LET len == CurBlock(z).len
             used == IF CurBlock(z).used_bits_last = 0 THEN 8 ELSE CurBlock(z).used_bits_last
         IN \/ len = 0
            \/ z.tape.byte_idx > len - 1
            \/ (z.tape.byte_idx = len - 1 /\ z.tape.bit_idx >= used)

(* tape_current_bit taking the bits least-significant first. *)
tape_current_bit_lsb_first(z) ==
    IF z.tape.block_idx >= z.tape.block_count THEN 0
    ELSE IF tape_block_at_end(z) THEN 0
    ELSE Bit(CurBlock(z).data[z.tape.byte_idx + 1], z.tape.bit_idx)

(* With a used-bit count above 8 the cursor reaches bit_idx 8 and the shift *)
(* count 7 - bit_idx is negative, which is undefined in C: the bit read is *)
(* then z.shift_ub, which the caller chooses.                              *)
tape_current_bit(z) ==
    IF z.tape.block_idx >= z.tape.block_count THEN 0
    ELSE IF tape_block_at_end(z) THEN 0
    ELSE IF z.tape.bit_idx > 7 THEN z.shift_ub
    ELSE Bit(CurBlock(z).data[z.tape.byte_idx + 1], 7 - z.tape.bit_idx)

DataPulseLen_bit0(z) ==
    IF CurBlock(z).bit0_len # 0 THEN CurBlock(z).bit0_len ELSE 855

(* Width of the data pulse for the bit under the cursor. *)
DataPulseLen(z) ==
    LET p0 == IF CurBlock(z).bit0_len # 0 THEN CurBlock(z).bit0_len ELSE 855
        p1 == IF CurBlock(z).bit1_len # 0 THEN CurBlock(z).bit1_len ELSE 1710
    IN IF tape_current_bit(z) = 1 THEN p1 ELSE p0

TapeStopped_active(z) ==
    [z EXCEPT !.tape.playing = 0, !.tape.phase = TAPE_PHASE_STOP, !.tape.ear_level = 1]

TapeStopped(z) ==
    [z EXCEPT !.tape.playing = 0, !.tape_active = 0,
              !.tape.phase = TAPE_PHASE_STOP, !.tape.ear_level = 1]

tape_start_block(z) ==
    IF z.tape.block_idx >= z.tape.block_count THEN TapeStopped(z)
    ELSE
      LET blk == CurBlock(z)
          z1 == [z EXCEPT !.tape.byte_idx = 0, !.tape.bit_idx = 0,
                          !.tape.pulse_in_bit = 0,
                          !.tape.ear_level =
                              IF blk.start_level_set # 0
                              THEN (IF blk.start_level # 0 THEN 1 ELSE 0)
                              ELSE 1]
          blen == blk.len
          pause_ms == blk.pause_ms
      IN IF blen = 0 /\ pause_ms > 0
         THEN [z1 EXCEPT !.tape.phase = TAPE_PHASE_PAUSE, !.tape.ear_level = 0,
                         !.tape.tstates_rem = pause_ms * 3500]
         ELSE IF blen = 0 /\ pause_ms = 0
         THEN TapeStopped(z1)
         ELSE IF blk.has_pilot_sync = 0
         THEN LET z2 == [z1 EXCEPT !.tape.phase = TAPE_PHASE_DATA, !.tape.pulse_in_bit = 0]
              IN [z2 EXCEPT !.tape.tstates_rem = DataPulseLen(z2)]
         ELSE
           LET flag == IF blen # 0 THEN blk.data[1] ELSE 255
               prem == IF blk.is_turbo # 0 THEN blk.pilot_pulses
                       ELSE (IF flag < 128 THEN 8063 ELSE 3223)
               pilot_len == IF blk.pilot_len = 0 THEN 2168 ELSE blk.pilot_len
               z2 == [z1 EXCEPT !.tape.pilot_rem = prem]
           IN IF prem <= 0
              THEN [z2 EXCEPT !.tape.phase = TAPE_PHASE_SYNC1,
                              !.tape.tstates_rem =
                                  IF blk.sync1_len # 0 THEN blk.sync1_len ELSE 667]
              ELSE [z2 EXCEPT !.tape.phase = TAPE_PHASE_PILOT,
                              !.tape.tstates_rem = pilot_len]

(* tape_advance_after_pulse without the pilot pulse countdown. *)
tape_advance_after_pulse_endless_pilot(z) ==
    LET blk == CurBlock(z) IN
    CASE z.tape.phase = TAPE_PHASE_PILOT ->
           LET z1 == z
           IN IF z1.tape.pilot_rem <= 0
              THEN [z1 EXCEPT !.tape.phase = TAPE_PHASE_SYNC1,
                              !.tape.tstates_rem =
                                  IF blk.sync1_len # 0 THEN blk.sync1_len ELSE 667]
              ELSE [z1 EXCEPT !.tape.tstates_rem =
                                  IF blk.pilot_len # 0 THEN blk.pilot_len ELSE 2168]
      [] z.tape.phase = TAPE_PHASE_SYNC1 ->
           [z EXCEPT !.tape.phase = TAPE_PHASE_SYNC2,
                     !.tape.tstates_rem =
                         IF blk.sync2_len # 0 THEN blk.sync2_len ELSE 735]
      [] z.tape.phase = TAPE_PHASE_SYNC2 ->
           LET z1 == [z EXCEPT !.tape.phase = TAPE_PHASE_DATA, !.tape.pulse_in_bit = 0]
           IN [z1 EXCEPT !.tape.tstates_rem = DataPulseLen(z1)]
      [] z.tape.phase = TAPE_PHASE_DATA ->
           IF z.tape.pulse_in_bit = 0
           THEN LET z1 == [z EXCEPT !.tape.pulse_in_bit = 1]
                IN [z1 EXCEPT !.tape.tstates_rem = DataPulseLen(z1)]
           ELSE
             LET used == IF blk.used_bits_last = 0 THEN 8 ELSE blk.used_bits_last
                 nbit == z.tape.bit_idx + 1
                 lastb == z.tape.byte_idx = blk.len - 1
                 wrap == IF lastb THEN nbit >= used ELSE nbit >= 8
                 z1 == [z EXCEPT !.tape.pulse_in_bit = 0,
                                 !.tape.bit_idx = IF wrap THEN (IF lastb THEN used ELSE 0)
                                                  ELSE nbit,
                                 !.tape.byte_idx = IF wrap THEN @ + 1 ELSE @]
             IN IF z1.tape.byte_idx >= blk.len
                THEN IF blk.pause_defined # 0
                     THEN [z1 EXCEPT !.tape.phase = TAPE_PHASE_PAUSE,
                                     !.tape.ear_level = IF blk.pause_ms > 0 THEN 0 ELSE @,
                                     !.tape.tstates_rem = blk.pause_ms * 3500]
                     ELSE [z1 EXCEPT !.tape.phase = TAPE_PHASE_PAUSE,
                                     !.tape.ear_level = 0,
                                     !.tape.tstates_rem =
                                         IF z1.tape.block_idx + 1 < z1.tape.block_count
                                         THEN 200000 ELSE 3500000]
                ELSE [z1 EXCEPT !.tape.tstates_rem = DataPulseLen(z1)]
      [] OTHER -> z

tape_advance_after_pulse(z) ==
    LET blk == CurBlock(z) IN
    CASE z.tape.phase = TAPE_PHASE_PILOT ->
           LET z1 == [z EXCEPT !.tape.pilot_rem = @ - 1]
           IN IF z1.tape.pilot_rem <= 0
              THEN [z1 EXCEPT !.tape.phase = TAPE_PHASE_SYNC1,
                              !.tape.tstates_rem =
                                  IF blk.sync1_len # 0 THEN blk.sync1_len ELSE 667]
              ELSE [z1 EXCEPT !.tape.tstates_rem =
                                  IF blk.pilot_len # 0 THEN blk.pilot_len ELSE 2168]
      [] z.tape.phase = TAPE_PHASE_SYNC1 ->
           [z EXCEPT !.tape.phase = TAPE_PHASE_SYNC2,
                     !.tape.tstates_rem =
                         IF blk.sync2_len # 0 THEN blk.sync2_len ELSE 735]
      [] z.tape.phase = TAPE_PHASE_SYNC2 ->
           LET z1 == [z EXCEPT !.tape.phase = TAPE_PHASE_DATA, !.tape.pulse_in_bit = 0]
           IN [z1 EXCEPT !.tape.tstates_rem = DataPulseLen(z1)]
      [] z.tape.phase = TAPE_PHASE_DATA ->
           IF z.tape.pulse_in_bit = 0
           THEN LET z1 == [z EXCEPT !.tape.pulse_in_bit = 1]
                IN [z1 EXCEPT !.tape.tstates_rem = DataPulseLen(z1)]
           ELSE
             LET used == IF blk.used_bits_last = 0 THEN 8 ELSE blk.used_bits_last
                 nbit == z.tape.bit_idx + 1
                 lastb == z.tape.byte_idx = blk.len - 1
                 wrap == IF lastb THEN nbit >= used ELSE nbit >= 8
                 z1 == [z EXCEPT !.tape.pulse_in_bit = 0,
                                 !.tape.bit_idx = IF wrap THEN (IF lastb THEN used ELSE 0)
                                                  ELSE nbit,
                                 !.tape.byte_idx = IF wrap THEN @ + 1 ELSE @]
             IN IF z1.tape.byte_idx >= blk.len
                THEN IF blk.pause_defined # 0
                     THEN [z1 EXCEPT !.tape.phase = TAPE_PHASE_PAUSE,
                                     !.tape.ear_level = IF blk.pause_ms > 0 THEN 0 ELSE @,
                                     !.tape.tstates_rem = blk.pause_ms * 3500]
                     ELSE [z1 EXCEPT !.tape.phase = TAPE_PHASE_PAUSE,
                                     !.tape.ear_level = 0,
                                     !.tape.tstates_rem =
                                         IF z1.tape.block_idx + 1 < z1.tape.block_count
                                         THEN 200000 ELSE 3500000]
                ELSE [z1 EXCEPT !.tape.tstates_rem = DataPulseLen(z1)]
      [] OTHER -> z

(* One pulse edge as seen from outside: the player on both sides of it and *)
(* the tape time (T-states played so far) at which it fell.                *)
Edge(before, after) ==
    [from |-> before.tape, to |-> after.tape, at |-> after.tape_played]

RECURSIVE TapeLoop_late_edge(_, _)
TapeLoop_late_edge(z, tstates) ==
    IF tstates <= 0 THEN z
    ELSE
      LET z1 == IF z.tape.phase = TAPE_PHASE_STOP THEN tape_start_block(z) ELSE z IN
      IF z1.tape.phase = TAPE_PHASE_STOP THEN z1
      ELSE IF z1.tape.phase = TAPE_PHASE_PAUSE
      THEN IF tstates < z1.tape.tstates_rem
           THEN [z1 EXCEPT !.tape.tstates_rem = @ - tstates,
                           !.tape_played = @ + tstates]
           ELSE LET z2 == [z1 EXCEPT !.tape.tstates_rem = 0, !.tape.block_idx = @ + 1,
                                     !.tape_played = @ + z1.tape.tstates_rem]
                    z3 == tape_start_block(z2)
                IN TapeLoop_late_edge([z3 EXCEPT !.edges = Append(@, Edge(z1, z3))],
                                      tstates - z1.tape.tstates_rem)
      ELSE
        LET z2 == IF z1.tape.tstates_rem <= 0
                  THEN [z1 EXCEPT !.tape.tstates_rem = 1] ELSE z1
        IN IF tstates <= z2.tape.tstates_rem
           THEN [z2 EXCEPT !.tape.tstates_rem = @ - tstates,
                           !.tape_played = @ + tstates]
           ELSE LET z3 == [z2 EXCEPT !.tape.tstates_rem = 0,
                                     !.tape.ear_level = 1 - @,
                                     !.tape_played = @ + z2.tape.tstates_rem]
                    z4 == tape_advance_after_pulse(z3)
                IN TapeLoop_late_edge([z4 EXCEPT !.edges = Append(@, Edge(z2, z4))],
                                      tstates - z2.tape.tstates_rem)

(* Body of the while loop of tape_tick. *)
RECURSIVE TapeLoop(_, _)
TapeLoop(z, tstates) ==
    IF tstates <= 0 THEN z
    ELSE
      LET z1 == IF z.tape.phase = TAPE_PHASE_STOP THEN tape_start_block(z) ELSE z IN
      IF z1.tape.phase = TAPE_PHASE_STOP THEN z1
      ELSE IF z1.tape.phase = TAPE_PHASE_PAUSE
      THEN IF tstates < z1.tape.tstates_rem
           THEN [z1 EXCEPT !.tape.tstates_rem = @ - tstates,
                           !.tape_played = @ + tstates]
           ELSE LET z2 == [z1 EXCEPT !.tape.tstates_rem = 0, !.tape.block_idx = @ + 1,
                                     !.tape_played = @ + z1.tape.tstates_rem]
                    z3 == tape_start_block(z2)
                IN TapeLoop([z3 EXCEPT !.edges = Append(@, Edge(z1, z3))],
                            tstates - z1.tape.tstates_rem)
      ELSE
        LET z2 == IF z1.tape.tstates_rem <= 0
                  THEN [z1 EXCEPT !.tape.tstates_rem = 1] ELSE z1
        IN IF tstates < z2.tape.tstates_rem
           THEN [z2 EXCEPT !.tape.tstates_rem = @ - tstates,
                           !.tape_played = @ + tstates]
           ELSE LET z3 == [z2 EXCEPT !.tape.tstates_rem = 0,
                                     !.tape.ear_level = 1 - @,
                                     !.tape_played = @ + z2.tape.tstates_rem]
                    z4 == tape_advance_after_pulse(z3)
                IN TapeLoop([z4 EXCEPT !.edges = Append(@, Edge(z2, z4))],
                            tstates - z2.tape.tstates_rem)

tape_tick(z0, tstates) ==
    LET z == [z0 EXCEPT !.tape_fed = @ + tstates] IN
    IF z.tape_active = 0 THEN z
    ELSE LET z1 == IF z.tape.autostarted = 0
                   THEN (IF z.tape.phase = TAPE_PHASE_STOP
                         THEN tape_start_block([z EXCEPT !.tape.autostarted = 1])
                         ELSE [z EXCEPT !.tape.autostarted = 1])
                   ELSE z
         IN TapeLoop(z1, tstates)

(***************************************************************************)
(* AY-3-8912 and audio sampling                                            *)
(***************************************************************************)
ay_write_register_unmasked(z, value) ==
    LET reg == z.ay.selected_reg IN
    IF reg > 15 THEN z
    ELSE IF reg = 13
    THEN [z EXCEPT !.ay.regs[reg + 1] = value,
                   !.ay.env_counter = 0, !.ay.env_step = 0, !.ay.env_holding = 0,
                   !.ay.env_attack = Bit(value, 2)]
    ELSE [z EXCEPT !.ay.regs[reg + 1] = value]

ay_write_register(z, value) ==
    LET reg == z.ay.selected_reg IN
    IF reg > 15 THEN z
    ELSE IF reg \in {1, 3, 5} THEN [z EXCEPT !.ay.regs[reg + 1] = value % 16]
    ELSE IF reg = 6 THEN [z EXCEPT !.ay.regs[reg + 1] = value % 32]
    ELSE IF reg \in {8, 9, 10} THEN [z EXCEPT !.ay.regs[reg + 1] = value % 32]
    ELSE IF reg = 13
    THEN [z EXCEPT !.ay.regs[reg + 1] = value % 16,
                   !.ay.env_counter = 0, !.ay.env_step = 0, !.ay.env_holding = 0,
                   !.ay.env_attack = Bit(value, 2)]
    ELSE [z EXCEPT !.ay.regs[reg + 1] = value]

ay_get_envelope_volume(a) ==
    IF a.env_attack = 0 THEN U8(15 - a.env_step) ELSE a.env_step

ay_update_envelope(a) ==
    IF a.env_holding # 0 THEN a
    ELSE
      LET p == a.regs[12] + 256 * a.regs[13]
          period == IF p = 0 THEN 1 ELSE p
          cnt == U16(a.env_counter + 1)
      IN IF cnt < period THEN [a EXCEPT !.env_counter = cnt]
         ELSE
           LET step == U8(a.env_step + 1)
               shape == a.regs[14]
           IN IF step < 16 THEN [a EXCEPT !.env_counter = 0, !.env_step = step]
              ELSE IF Bit(shape, 3) = 0
              THEN [a EXCEPT !.env_counter = 0, !.env_holding = 1, !.env_step = 0]
              ELSE IF Bit(shape, 0) = 1
              THEN [a EXCEPT !.env_counter = 0, !.env_holding = 1,
                             !.env_step = IF Bit(shape, 1) = 1
                                          THEN (IF a.env_attack # 0 THEN 15 ELSE 0)
                                          ELSE (IF a.env_attack # 0 THEN 0 ELSE 15)]
              ELSE [a EXCEPT !.env_counter = 0, !.env_step = 0,
                             !.env_attack = IF Bit(shape, 1) = 1 THEN 1 - @ ELSE @]

(* ay_tick's divider loop with the feedback term of the LFSR left out. *)
AyClock_no_feedback(a) ==
    LET TonePeriod(ch) ==
            LET p == a.regs[ch * 2 + 1] + 256 * (a.regs[ch * 2 + 2] % 16)
            IN IF p = 0 THEN 1 ELSE p
        ToneHit(ch) == U16(a.tone_counters[ch + 1] + 1) >= TonePeriod(ch)
        np == IF a.regs[7] % 32 = 0 THEN 1 ELSE a.regs[7] % 32
        nhit == U8(a.noise_counter + 1) >= np
        nshift == a.noise_shift \div 2
        a1 == [a EXCEPT
                 !.tone_counters = [ch \in 1 .. 3 |->
                     IF ToneHit(ch - 1) THEN 0 ELSE U16(a.tone_counters[ch] + 1)],
                 !.tone_outputs = [ch \in 1 .. 3 |->
                     IF ToneHit(ch - 1) THEN 1 - a.tone_outputs[ch] ELSE a.tone_outputs[ch]],
                 !.noise_counter = IF nhit THEN 0 ELSE U8(@ + 1),
                 !.noise_shift = IF nhit THEN nshift ELSE @,
                 !.noise_output = IF nhit THEN nshift % 2 ELSE @]
    IN IF U8(a1.env_div + 1) >= 16
       THEN ay_update_envelope([a1 EXCEPT !.env_div = 0])
       ELSE [a1 EXCEPT !.env_div = U8(@ + 1)]

(* One pass of the divider loop of ay_tick: one AY clock. *)
AyClock(a) ==
    LET TonePeriod(ch) ==
            LET p == a.regs[ch * 2 + 1] + 256 * (a.regs[ch * 2 + 2] % 16)
            IN IF p = 0 THEN 1 ELSE p
        ToneHit(ch) == U16(a.tone_counters[ch + 1] + 1) >= TonePeriod(ch)
        np == IF a.regs[7] % 32 = 0 THEN 1 ELSE a.regs[7] % 32
        nhit == U8(a.noise_counter + 1) >= np
        feedback == ((a.noise_shift % 2) + Bit(a.noise_shift, 3)) % 2
        nshift == (a.noise_shift \div 2) + feedback * 65536
        a1 == [a EXCEPT
                 !.tone_counters = [ch \in 1 .. 3 |->
                     IF ToneHit(ch - 1) THEN 0 ELSE U16(a.tone_counters[ch] + 1)],
                 !.tone_outputs = [ch \in 1 .. 3 |->
                     IF ToneHit(ch - 1) THEN 1 - a.tone_outputs[ch] ELSE a.tone_outputs[ch]],
                 !.noise_counter = IF nhit THEN 0 ELSE U8(@ + 1),
                 !.noise_shift = IF nhit THEN nshift ELSE @,
                 !.noise_output = IF nhit THEN nshift % 2 ELSE @]
    IN IF U8(a1.env_div + 1) >= 16
       THEN ay_update_envelope([a1 EXCEPT !.env_div = 0])
       ELSE [a1 EXCEPT !.env_div = U8(@ + 1)]

RECURSIVE AyLoop(_)
AyLoop(a) ==
    IF a.tstates_accum >= AY_CLOCK_DIVIDER
    THEN AyLoop(AyClock([a EXCEPT !.tstates_accum = @ - AY_CLOCK_DIVIDER]))
    ELSE a

ay_tick(z, tstates) ==
    IF z.machine_type = MACHINE_48K THEN z
    ELSE [z EXCEPT !.ay = AyLoop([z.ay EXCEPT !.tstates_accum = @ + tstates])]

(* audio_tick clearing the phase accumulator when it emits. *)
audio_tick_clear_phase(z, tstates) ==
    LET z1 == ay_tick(z, tstates)
        acc == z1.audio_phase_accum + tstates * AUDIO_SAMPLE_RATE
        n == acc \div CPU_CLOCK
        room == AUDIO_SAMPLES_PER_FRAME - z1.audio_sample_idx
    IN [z1 EXCEPT !.audio_phase_accum = IF n > 0 THEN 0 ELSE acc,
                  !.audio_sample_idx = @ + (IF n < room THEN n ELSE room),
                  !.audio_fed = @ + tstates]

(* audio_tick: the AY is clocked, then the phase accumulator emits one     *)
(* sample slot per CPU_CLOCK units; slots beyond the buffer are dropped.   *)
audio_tick(z, tstates) ==
    LET z1 == ay_tick(z, tstates)
        acc == z1.audio_phase_accum + tstates * AUDIO_SAMPLE_RATE
        n == acc \div CPU_CLOCK
        room == AUDIO_SAMPLES_PER_FRAME - z1.audio_sample_idx
    IN [z1 EXCEPT !.audio_phase_accum = acc % CPU_CLOCK,
                  !.audio_sample_idx = @ + (IF n < room THEN n ELSE room),
                  !.audio_fed = @ + tstates]

(***************************************************************************)
(* I/O ports                                                               *)
(***************************************************************************)
port_write_nolock(z, port, value) ==
    IF port % 2 = 0
    THEN [z EXCEPT !.border_color = value % 8, !.beeper_state = Bit(value, 4)]
    ELSE IF /\ z.machine_type # MACHINE_48K
            /\ Bit(port, 15) = 0 /\ Bit(port, 1) = 0
            /\ port % 256 = 253
    THEN update_memory_mapping([z EXCEPT !.port_7ffd = value,
                                         !.paging_disabled = Bit(value, 5)])
    ELSE IF z.machine_type # MACHINE_48K /\ Bit(port, 15) = 1 /\ Bit(port, 1) = 0
    THEN IF Bit(port, 14) = 1
         THEN [z EXCEPT !.ay.selected_reg = value % 16]
         ELSE ay_write_register(z, value)
    ELSE z

port_write(z, port, value) ==
    IF port % 2 = 0
    THEN [z EXCEPT !.border_color = value % 8, !.beeper_state = Bit(value, 4)]
    ELSE IF /\ z.machine_type # MACHINE_48K
            /\ Bit(port, 15) = 0 /\ Bit(port, 1) = 0
            /\ port % 256 = 253
    THEN IF z.paging_disabled = 0
         THEN update_memory_mapping([z EXCEPT !.port_7ffd = value,
                                              !.paging_disabled = Bit(value, 5)])
         ELSE z
    ELSE IF z.machine_type # MACHINE_48K /\ Bit(port, 15) = 1 /\ Bit(port, 1) = 0
    THEN IF Bit(port, 14) = 1
         THEN [z EXCEPT !.ay.selected_reg = value % 16]
         ELSE ay_write_register(z, value)
    ELSE z

(***************************************************************************)
(* Z80 core.  The opcodes below are the modelled part of the instruction   *)
(* set; any other opcode that the source implements raises the marker      *)
(* zx.unmodelled, which every specification keeps at 0.                    *)
(***************************************************************************)
(* Second bytes that execute_ed implements (its case labels). *)
EdHandled ==
    {64, 65, 66, 67, 68, 69, 70, 71, 72, 73, 74, 75, 76, 77, 78, 79, 80, 81,
     82, 83, 84, 85, 86, 87, 88, 89, 90, 91, 92, 93, 94, 95, 96, 97, 98, 99,
     100, 101, 102, 103, 104, 105, 106, 107, 108, 109, 110, 111, 112, 113,
     114, 115, 116, 117, 118, 120, 121, 122, 123, 124, 125, 126, 160, 161,
     162, 163, 168, 169, 170, 171, 176, 177, 178, 179, 184, 185, 186, 187}

(* Second bytes that execute_index implements (its case labels). *)
IndexHandled ==
    {0, 9, 25, 33, 34, 35, 36, 37, 38, 41, 42, 43, 44, 45, 46, 52, 53, 54,
     57, 64, 68, 69, 70, 76, 77, 78, 84, 85, 86, 92, 93, 94, 96, 97, 98, 99,
     100, 101, 102, 103, 104, 105, 106, 107, 108, 109, 110, 111, 112, 113,
     114, 115, 116, 117, 119, 124, 125, 126, 128, 132, 133, 134, 140, 141,
     142, 148, 149, 150, 156, 157, 158, 164, 165, 166, 172, 173, 174, 180,
     181, 182, 188, 189, 190, 192, 203, 225, 227, 229, 233, 249}

floating_bus_read(z) ==
    LET t == z.tstates % z.tstates_per_frame
        line == t \div TSTATES_PER_LINE
        t_in_line == t - line * TSTATES_PER_LINE
        y == line - 64
        byte_x == t_in_line \div 4
        third == y \div 64
        line_in_third == y % 64
        char_row == line_in_third \div 8
        pixel_row == line_in_third % 8
        offset == third * 2048 + pixel_row * 256 + char_row * 32 + byte_x
        bank == IF z.machine_type # MACHINE_48K /\ z.active_screen # 0 THEN 7 ELSE 5
    IN IF line < 64 \/ line >= 64 + 192 \/ byte_x >= 32
       THEN [z |-> z, v |-> z.floating_bus_last]
       ELSE LET v == BankGet(z.ram_banks[bank], offset)
            IN [z |-> [z EXCEPT !.floating_bus_last = v], v |-> v]

ay_read_register(z) ==
    IF z.ay.selected_reg > 15 THEN 255 ELSE z.ay.regs[z.ay.selected_reg + 1]

(* The keyboard loop of port_read from row on: result ANDed with every     *)
(* half-row whose address line (bit row + 8 of the port) is 0.             *)
RECURSIVE KeyboardScan(_, _, _, _)
KeyboardScan(z, port, row, result) ==
    IF row >= 8 THEN result
    ELSE KeyboardScan(z, port, row + 1,
                      IF Bit(port, row + 8) = 0
                      THEN BitAnd(result, z.keyboard_rows[row]) ELSE result)

(* port_read reporting bit 6 of an even port as always set. *)
port_read_ear_high(z, port) ==
    IF port % 2 = 0
    THEN [z |-> z, v |-> BitOr(BitOr(KeyboardScan(z, port, 0, 255), 160), 64)]
    ELSE IF port % 256 = 31 THEN [z |-> z, v |-> 0]
    ELSE IF z.machine_type # MACHINE_48K /\ BitAnd(port, 49154) = 49152
    THEN [z |-> z, v |-> ay_read_register(z)]
    ELSE floating_bus_read(z)

(* port_read: the state after the read and the byte read (the statistics   *)
(* counter keyboard_reads is not kept).                                    *)
port_read(z, port) ==
    IF port % 2 = 0
    THEN [z |-> z,
          v |-> IF z.tape.ear_level # 0
                THEN BitOr(BitOr(KeyboardScan(z, port, 0, 255), 160), 64)
                ELSE BitAnd(BitOr(KeyboardScan(z, port, 0, 255), 160), 191)]
    ELSE IF port % 256 = 31 THEN [z |-> z, v |-> 0]
    ELSE IF z.machine_type # MACHINE_48K /\ BitAnd(port, 49154) = 49152
    THEN [z |-> z, v |-> ay_read_register(z)]
    ELSE floating_bus_read(z)

IncR(r) == (r \div 128) * 128 + ((r + 1) % 128)

pop16(z) == [z |-> [z EXCEPT !.sp = U16(@ + 2)], v |-> mem_read16(z, z.sp)]

Ret(z, t) == [z |-> z, t |-> t]

Unmodelled(z) == [z |-> [z EXCEPT !.unmodelled = 1], t |-> 4]

execute_ed_single_nop(z0) ==
    LET opcode == mem_read(z0, z0.pc)
        z == [z0 EXCEPT !.pc = U16(@ + 1)]
    IN CASE opcode \in {69, 85, 93, 101, 109, 117, 125, 77} ->
              LET p == pop16(z)
              IN Ret([p.z EXCEPT !.iff1 = z.iff2, !.pc = p.v], 14)
         [] opcode \in {70, 78, 102, 110} -> Ret([z EXCEPT !.im = 0], 8)
         [] opcode \in {86, 118} -> Ret([z EXCEPT !.im = 1], 8)
         [] opcode \in {94, 126} -> Ret([z EXCEPT !.im = 2], 8)
         [] opcode = 71 -> Ret([z EXCEPT !.i = z.a], 9)
         [] opcode = 121 -> Ret(port_write(z, z.b * 256 + z.c, z.a), 12)
         [] opcode \notin EdHandled -> Ret(z, 4)
         [] OTHER -> Unmodelled(z)

execute_ed(z0) ==
    LET opcode == mem_read(z0, z0.pc)
        z == [z0 EXCEPT !.pc = U16(@ + 1)]
    IN CASE opcode \in {69, 85, 93, 101, 109, 117, 125, 77} ->
              LET p == pop16(z)
              IN Ret([p.z EXCEPT !.iff1 = z.iff2, !.pc = p.v], 14)
         [] opcode \in {70, 78, 102, 110} -> Ret([z EXCEPT !.im = 0], 8)
         [] opcode \in {86, 118} -> Ret([z EXCEPT !.im = 1], 8)
         [] opcode \in {94, 126} -> Ret([z EXCEPT !.im = 2], 8)
         [] opcode = 71 -> Ret([z EXCEPT !.i = z.a], 9)
         [] opcode = 121 -> Ret(port_write(z, z.b * 256 + z.c, z.a), 12)
         [] opcode \notin EdHandled -> Ret(z, 8)
         [] OTHER -> Unmodelled(z)

(* idx_reg is the name of the index register, "ix" or "iy". *)
execute_index(z0, idx_reg) ==
    LET opcode == mem_read(z0, z0.pc)
        z == [z0 EXCEPT !.pc = U16(@ + 1)]
    IN IF opcode \notin IndexHandled
       THEN Ret([z EXCEPT !.pc = U16(@ - 1)], 4)
       ELSE IF opcode = 227
       THEN Ret([mem_write16(z, z.sp, z[idx_reg])
                    EXCEPT ![idx_reg] = mem_read16(z, z.sp)], 23)
       ELSE Unmodelled(z)

execute_one_core(z0) ==
    IF z0.halted # 0 THEN Ret([z0 EXCEPT !.r = IncR(@)], 4)
    ELSE
      LET opcode == mem_read(z0, z0.pc)
          z == [z0 EXCEPT !.pc = U16(@ + 1), !.last_opcode = opcode, !.r = IncR(@)]
          n == mem_read(z, z.pc)
          nn == mem_read16(z, z.pc)
          z8 == [z EXCEPT !.pc = U16(@ + 1)]
          z16 == [z EXCEPT !.pc = U16(@ + 2)]
      IN CASE opcode = 221 -> execute_index(z, "ix")
           [] opcode = 253 -> execute_index(z, "iy")
           [] opcode = 0 -> Ret(z, 4)
           [] opcode = 1 -> Ret([z16 EXCEPT !.b = nn \div 256, !.c = nn % 256], 10)
           [] opcode = 24 ->
                Ret([z8 EXCEPT !.pc = U16(@ + (IF n < 128 THEN n ELSE n - 256))], 12)
           [] opcode = 49 -> Ret([z16 EXCEPT !.sp = nn], 10)
           [] opcode = 50 -> Ret(mem_write(z16, nn, z.a), 13)
           [] opcode = 62 -> Ret([z8 EXCEPT !.a = n], 7)
           [] opcode = 118 -> Ret([z EXCEPT !.halted = 1], 4)
           [] opcode = 195 -> Ret([z EXCEPT !.pc = nn], 10)
           [] opcode = 201 -> LET p == pop16(z) IN Ret([p.z EXCEPT !.pc = p.v], 10)
           [] opcode = 211 -> Ret(port_write(z8, z.a * 256 + n, z.a), 11)
           [] opcode = 227 ->
                Ret([mem_write16(z, z.sp, z.h * 256 + z.l)
                        EXCEPT !.h = mem_read16(z, z.sp) \div 256,
                               !.l = mem_read16(z, z.sp) % 256], 19)
           [] opcode = 237 -> execute_ed(z)
           [] opcode = 243 -> Ret([z EXCEPT !.iff1 = 0, !.iff2 = 0, !.ei_delay = 0], 4)
           [] opcode = 245 -> Ret(push16(z, z.a * 256 + z.f), 11)
           [] opcode = 251 -> Ret([z EXCEPT !.ei_delay = 1], 4)
           [] opcode = 255 -> Ret([push16(z, z.pc) EXCEPT !.pc = 56], 11)
           [] OTHER -> Unmodelled(z)

(* The audio/tape interleaving loop of execute_one. *)
RECURSIVE TickChunks(_, _)
TickChunks(z, rem) ==
    IF rem <= 0 THEN z
    ELSE LET chunk == IF /\ z.tape_active # 0
                         /\ z.tape.tstates_rem > 0
                         /\ z.tape.tstates_rem < rem
                      THEN z.tape.tstates_rem ELSE rem
         IN TickChunks(tape_tick(audio_tick(z, chunk), chunk), rem - chunk)

(* Everything execute_one does with the T-states of one instruction. *)
TickInstruction(z, tstates) ==
    LET z1 == IF z.tape_active # 0 /\ z.tape.autostarted = 0
              THEN tape_tick(z, 0) ELSE z
    IN TickChunks(z1, tstates)

EiDelayUpdate_any(z) ==
    IF z.ei_delay # 0
    THEN IF z.ei_delay - 1 = 0
         THEN [z EXCEPT !.ei_delay = 0, !.iff1 = 1, !.iff2 = 1]
         ELSE [z EXCEPT !.ei_delay = @ - 1]
    ELSE z

EiDelayUpdate(z) ==
    IF z.ei_delay # 0 /\ z.last_opcode # 251
    THEN IF z.ei_delay - 1 = 0
         THEN [z EXCEPT !.ei_delay = 0, !.iff1 = 1, !.iff2 = 1]
         ELSE [z EXCEPT !.ei_delay = @ - 1]
    ELSE z

execute_one(z) ==
    LET c == execute_one_core(z)
    IN Ret(EiDelayUpdate(TickInstruction(c.z, c.t)), c.t)

InterruptAccept_keep_delay(z) ==
    LET z1 == [z EXCEPT !.iff1 = 0] IN
    IF z1.im = 0 \/ z1.im = 1
    THEN [push16(z1, z1.pc) EXCEPT !.pc = 56, !.tstates = @ + 13]
    ELSE z1

InterruptAccept_carry(z) ==
    LET z1 == [z EXCEPT !.iff1 = 0, !.ei_delay = 0] IN
    IF z1.im = 0 \/ z1.im = 1
    THEN [push16(z1, z1.pc) EXCEPT !.pc = 56, !.tstates = @ + 13]
    ELSE IF z1.im = 2
    THEN LET z2 == push16(z1, z1.pc)
             fb == IF z2.int_vector_fixed # 0
                   THEN [z |-> z2, v |-> z2.int_vector]
                   ELSE floating_bus_read(z2)
             ptr == fb.z.i * 256 + fb.v
             lo == mem_read(fb.z, ptr)
             hi == mem_read(fb.z, U16(ptr + 1))
         IN [fb.z EXCEPT !.pc = lo + 256 * hi, !.tstates = @ + 19]
    ELSE z1

(* handle_interrupt once the interrupt is accepted (IFF1 was set).          *)
InterruptAccept(z) ==
    LET z1 == [z EXCEPT !.iff1 = 0, !.ei_delay = 0] IN
    IF z1.im = 0 \/ z1.im = 1
    THEN [push16(z1, z1.pc) EXCEPT !.pc = 56, !.tstates = @ + 13]
    ELSE IF z1.im = 2
    THEN LET z2 == push16(z1, z1.pc)
             fb == IF z2.int_vector_fixed # 0
                   THEN [z |-> z2, v |-> z2.int_vector]
                   ELSE floating_bus_read(z2)
             ptr == fb.z.i * 256 + fb.v
             ptr_hi == fb.z.i * 256 + U8(fb.v + 1)
             lo == mem_read(fb.z, ptr)
             hi == mem_read(fb.z, ptr_hi)
         IN [fb.z EXCEPT !.pc = lo + 256 * hi, !.tstates = @ + 19]
    ELSE z1

handle_interrupt_masked(z0) ==
    IF z0.iff1 = 0 THEN z0 ELSE InterruptAccept([z0 EXCEPT !.halted = 0])

handle_interrupt(z0) ==
    IF z0.iff1 = 0 THEN [z0 EXCEPT !.halted = 0]
    ELSE InterruptAccept([z0 EXCEPT !.halted = 0])

(***************************************************************************)
(* Instance construction and the host-facing operations                    *)
(***************************************************************************)
TapeInit ==
    [loaded |-> 0, playing |-> 0, autostarted |-> 0, blocks |-> <<>>,
     block_count |-> 0, block_idx |-> 0, byte_idx |-> 0, bit_idx |-> 0,
     ear_level |-> 0, tstates_rem |-> 0, pilot_rem |-> 0,
     phase |-> TAPE_PHASE_STOP, pulse_in_bit |-> 0]

AyZero ==
    [regs |-> [k \in 1 .. 16 |-> 0], selected_reg |-> 0,
     tone_counters |-> <<0, 0, 0>>, tone_outputs |-> <<0, 0, 0>>,
     noise_counter |-> 0, noise_shift |-> 0, noise_output |-> 0,
     env_counter |-> 0, env_step |-> 0, env_holding |-> 0, env_attack |-> 0,
     env_div |-> 0, tstates_accum |-> 0]

(* memset(zx, 0, sizeof(ZXState)).  Six fields are observations and not    *)
(* fields of the C struct: unmodelled, edges (the tape edges of the        *)
(* current operation), tape_played (T-states of tape signal played),       *)
(* audio_fed and tape_fed (the T-states passed to audio_tick and to        *)
(* tape_tick since the start of the frame, or since construction), and     *)
(* shift_ub (the bit a shift by a negative count yields).                  *)
ZeroState ==
    [a |-> 0, f |-> 0, b |-> 0, c |-> 0, d |-> 0, e |-> 0, h |-> 0, l |-> 0,
     a_ |-> 0, f_ |-> 0, b_ |-> 0, c_ |-> 0, d_ |-> 0, e_ |-> 0, h_ |-> 0, l_ |-> 0,
     ix |-> 0, iy |-> 0, sp |-> 0, pc |-> 0, i |-> 0, r |-> 0,
     iff1 |-> 0, iff2 |-> 0, im |-> 0, ei_delay |-> 0, halted |-> 0,
     tstates |-> 0, machine_type |-> 0,
     ram_banks |-> [k \in 0 .. 7 |-> EmptyBank],
     rom_banks |-> [k \in 0 .. 1 |-> EmptyBank],
     mem_map |-> <<MapRom(0), MapRom(0), MapRom(0), MapRom(0)>>,
     mem_writable |-> <<0, 0, 0, 0>>,
     port_7ffd |-> 0, paging_disabled |-> 0, active_screen |-> 0,
     tstates_per_frame |-> 0, rom_loaded |-> 0,
     border_color |-> 0, keyboard_rows |-> [k \in 0 .. 7 |-> 0],
     screen_dirty |-> 0, beeper_state |-> 0,
     audio_sample_idx |-> 0, audio_phase_accum |-> 0,
     tape_audio_enabled |-> 0, tape_audio_amp |-> 0,
     ay |-> AyZero, tape_active |-> 0, tape |-> TapeInit,
     int_vector |-> 0, int_vector_fixed |-> 0, floating_bus_last |-> 0,
     last_opcode |-> 0,
     unmodelled |-> 0, edges |-> <<>>, tape_played |-> 0,
     audio_fed |-> 0, tape_fed |-> 0, shift_ub |-> 0]

zx_new(machine) ==
    LET z0 == [ZeroState EXCEPT
                 !.machine_type = machine,
                 !.tstates_per_frame = IF machine = MACHINE_48K
                                       THEN TSTATES_PER_FRAME_48K
                                       ELSE TSTATES_PER_FRAME_128K,
                 !.keyboard_rows = [k \in 0 .. 7 |-> 255],
                 !.int_vector = 255, !.int_vector_fixed = 0,
                 !.port_7ffd = 0, !.paging_disabled = 0,
                 !.floating_bus_last = 255,
                 !.ay.noise_shift = 1]
        z1 == tape_rewind(update_memory_mapping(z0))
    IN [z1 EXCEPT !.tape_audio_enabled = 1, !.tape_audio_amp = 6000]

zx_reset_keep_tape_running(z) ==
    LET z1 == [z EXCEPT !.pc = 0, !.sp = 65535, !.a = 255, !.f = 255,
                        !.iff1 = 0, !.iff2 = 0, !.im = 0, !.ei_delay = 0,
                        !.halted = 0, !.tstates = 0, !.screen_dirty = 1,
                        !.int_vector = 255, !.int_vector_fixed = 0,
                        !.port_7ffd = 0, !.paging_disabled = 0]
    IN update_memory_mapping(z1)

zx_reset(z) ==
    LET z1 == [z EXCEPT !.pc = 0, !.sp = 65535, !.a = 255, !.f = 255,
                        !.iff1 = 0, !.iff2 = 0, !.im = 0, !.ei_delay = 0,
                        !.halted = 0, !.tstates = 0, !.screen_dirty = 1,
                        !.beeper_state = 0, !.audio_sample_idx = 0,
                        !.audio_phase_accum = 0,
                        !.int_vector = 255, !.int_vector_fixed = 0,
                        !.port_7ffd = 0, !.paging_disabled = 0]
        z2 == [update_memory_mapping(z1) EXCEPT
                        !.floating_bus_last = 255,
                        !.ay = [AyZero EXCEPT !.noise_shift = 1]]
        z3 == tape_rewind(z2)
    IN [z3 EXCEPT !.tape.loaded = IF z3.tape.block_count > 0 THEN 1 ELSE 0,
                  !.tape.playing = 0, !.tape_active = 0,
                  !.tape.phase = TAPE_PHASE_STOP, !.tape.ear_level = 1,
                  !.tape.autostarted = 0]

(* zx_load_rom; data is the image as a byte sequence and len its declared  *)
(* length (the image is zero beyond Len(data)).                            *)
RomHalf(data, lo) ==
    [o \in {k \in 0 .. (Len(data) - lo - 1) : k < 16384 /\ data[k + lo + 1] # 0}
       |-> data[o + lo + 1]]

zx_load_rom(z, data, len) ==
    IF z.machine_type = MACHINE_48K
    THEN IF len # 16384 THEN [z |-> z, ok |-> FALSE]
         ELSE [z |-> tape_rewind(update_memory_mapping(
                       [z EXCEPT !.rom_banks[0] = RomHalf(data, 0),
                                 !.rom_loaded = 1])),
               ok |-> TRUE]
    ELSE IF len # 32768 THEN [z |-> z, ok |-> FALSE]
         ELSE [z |-> tape_rewind(update_memory_mapping(
                       [z EXCEPT !.rom_banks[0] = RomHalf(data, 0),
                                 !.rom_banks[1] = RomHalf(data, 16384),
                                 !.rom_loaded = 1])),
               ok |-> TRUE]

zx_poke(z, addr, value) == mem_write(z, addr, value)

zx_set_int_vector(z, v) ==
    [z EXCEPT !.int_vector = U8(v), !.int_vector_fixed = 1]

RECURSIVE LoadMemoryFrom(_, _, _, _)
LoadMemoryFrom(z, addr, data, i) ==
    IF i < Len(data) /\ addr + i <= 65535
    THEN LoadMemoryFrom(mem_write(z, addr + i, data[i + 1]), addr, data, i + 1)
    ELSE z

zx_load_memory(z, addr, data) == LoadMemoryFrom(z, addr, data, 0)

(* zx_step: one instruction; the return value is its T-state count. *)
zx_step(z) == execute_one(z)

zx_tape_play(z, play) ==
    LET z1 == [z EXCEPT !.tape.playing = IF play THEN 1 ELSE 0,
                        !.tape_active = IF z.tape.loaded # 0 /\ play THEN 1 ELSE 0]
    IN IF z1.tape.playing # 0
       THEN (IF z1.tape.phase = TAPE_PHASE_STOP THEN tape_start_block(z1) ELSE z1)
       ELSE [z1 EXCEPT !.tape.ear_level = 1]

zx_tape_rewind(z) == tape_rewind(z)

(* An integer argument as the Lua API returns it (lua_Integer, 64 bits):   *)
(* the value is hi * 2^32 + lo with lo in the range of int.                *)
LuaInteger(hi, lo) == [hi |-> hi, lo |-> lo]

(* int x = luaL_checkinteger(...): the conversion to int keeps the low 32  *)
(* bits of the value.                                                      *)
CInt(n) == n.lo

zx_key_down(z, row, bit) ==
    IF CInt(row) >= 0 /\ CInt(row) < 8 /\ CInt(bit) >= 0 /\ CInt(bit) < 5
    THEN [z EXCEPT !.keyboard_rows[CInt(row)] =
                      @ - Bit(@, CInt(bit)) * Pow2(CInt(bit))]
    ELSE z

zx_key_up(z, row, bit) ==
    IF CInt(row) >= 0 /\ CInt(row) < 8 /\ CInt(bit) >= 0 /\ CInt(bit) < 5
    THEN [z EXCEPT !.keyboard_rows[CInt(row)] =
                      @ + (1 - Bit(@, CInt(bit))) * Pow2(CInt(bit))]
    ELSE z

(***************************************************************************)
(* Z80 snapshot codec.  A byte string is [len, at]: len bytes, at holding  *)
(* the non-zero ones by 0-based offset (absent = 0), so that full-size     *)
(* 16 KB banks stay cheap.                                                 *)
(***************************************************************************)
BsGet(b, i) == IF i \in DOMAIN b.at THEN b.at[i] ELSE 0

BsOfSeq(s) == [len |-> Len(s), at |-> BankOfSeq(s)]

BsOfBank(bank) == [len |-> RAM_BANK_SIZE, at |-> bank]

BsAppend(a, b) ==
    [len |-> a.len + b.len,
     at |-> [i \in (DOMAIN a.at) \cup {j + a.len : j \in DOMAIN b.at} |->
               IF i < a.len THEN a.at[i] ELSE b.at[i - a.len]]]

(* The first n bytes of b (n <= b.len). *)
BsTake(b, n) == [len |-> n, at |-> [i \in {j \in DOMAIN b.at : j < n} |-> b.at[i]]]

(* memcpy(dst, buf + pos, n) as a sparse bank. *)
BsBank(b, pos, n) ==
    [o \in {j - pos : j \in {k \in DOMAIN b.at : k >= pos /\ k < pos + n}} |->
       b.at[o + pos]]

BsRd16(b, p) == BsGet(b, p) + 256 * BsGet(b, p + 1)

wr16le(v) == <<v % 256, Shr(v, 8) % 256>>

(* out[o .. o+n-1] = val *)
RleFill(out, o, n, val) ==
    IF val = 0
    THEN [k \in (DOMAIN out) \ (o .. (o + n - 1)) |-> out[k]]
    ELSE [k \in (DOMAIN out) \cup (o .. (o + n - 1)) |->
            IF k >= o /\ k < o + n THEN val ELSE out[k]]

(* z80_rle_decompress over in = buf[base .. base+in_len-1].  st is the    *)
(* loop state [i, o, out, done]; done is set when the while condition     *)
(* fails or the version 1 end marker is met.                              *)
RleStep(buf, base, in_len, out_len, v1_stream, st) ==
    IF ~(st.i < in_len /\ st.o < out_len) THEN [st EXCEPT !.done = TRUE]
    ELSE IF /\ v1_stream /\ BsGet(buf, base + st.i) = 0 /\ st.i + 3 < in_len
            /\ BsGet(buf, base + st.i + 1) = 237
            /\ BsGet(buf, base + st.i + 2) = 237
            /\ BsGet(buf, base + st.i + 3) = 0
    THEN [st EXCEPT !.done = TRUE]
    ELSE IF /\ BsGet(buf, base + st.i) = 237 /\ st.i + 3 < in_len
            /\ BsGet(buf, base + st.i + 1) = 237
    THEN LET count == BsGet(buf, base + st.i + 2)
             val == BsGet(buf, base + st.i + 3)
             n == IF count < out_len - st.o THEN count ELSE out_len - st.o
         IN [st EXCEPT !.i = @ + 4, !.o = @ + n,
                       !.out = RleFill(@, st.o, n, val)]
    ELSE [st EXCEPT !.i = @ + 1, !.o = @ + 1,
                    !.out = BankSet(@, st.o, BsGet(buf, base + st.i))]

(* Up to k iterations of the loop. *)
RECURSIVE RleRun(_, _, _, _, _, _, _)
RleRun(buf, base, in_len, out_len, v1_stream, st, k) ==
    IF k = 0 \/ st.done THEN st
    ELSE RleRun(buf, base, in_len, out_len, v1_stream,
                RleStep(buf, base, in_len, out_len, v1_stream, st), k - 1)

RECURSIVE RleLoop(_, _, _, _, _, _)
RleLoop(buf, base, in_len, out_len, v1_stream, st) ==
    IF st.done THEN st
    ELSE RleLoop(buf, base, in_len, out_len, v1_stream,
                 RleRun(buf, base, in_len, out_len, v1_stream, st, 16))

z80_rle_decompress(buf, base, in_len, out_len, v1_stream) ==
    LET r == RleLoop(buf, base, in_len, out_len, v1_stream,
                     [i |-> 0, o |-> 0, out |-> EmptyBank, done |-> FALSE])
    IN [ok |-> r.o = out_len, out |-> r.out]

zx_snapshot_cleanup_runtime(z) ==
    LET z1 == [z EXCEPT !.tstates = 0, !.screen_dirty = 1,
                        !.audio_sample_idx = 0, !.audio_phase_accum = 0,
                        !.beeper_state = 0, !.floating_bus_last = 255,
                        !.ay.tstates_accum = 0, !.ay.noise_shift = 1,
                        !.ay.tone_counters = <<0, 0, 0>>,
                        !.ay.tone_outputs = <<0, 0, 0>>,
                        !.ay.noise_counter = 0, !.ay.noise_output = 0,
                        !.ay.env_counter = 0, !.ay.env_step = 0,
                        !.ay.env_holding = 0, !.ay.env_attack = 0,
                        !.ay.env_div = 0]
        z2 == tape_rewind(z1)
    IN [z2 EXCEPT !.tape.loaded = IF z2.tape.block_count > 0 THEN 1 ELSE 0,
                  !.tape.playing = 0, !.tape_active = 0,
                  !.tape.phase = TAPE_PHASE_STOP, !.tape.ear_level = 1,
                  !.tape.autostarted = 0]

z80_apply_page(z, page, data16k) ==
    IF z.machine_type = MACHINE_48K
    THEN IF page = 8 THEN [z |-> [z EXCEPT !.ram_banks[5] = data16k], ok |-> 1]
         ELSE IF page = 4 THEN [z |-> [z EXCEPT !.ram_banks[2] = data16k], ok |-> 1]
         ELSE IF page = 5 THEN [z |-> [z EXCEPT !.ram_banks[0] = data16k], ok |-> 1]
         ELSE [z |-> z, ok |-> 0]
    ELSE IF page >= 3 /\ page <= 10
    THEN [z |-> [z EXCEPT !.ram_banks[page - 3] = data16k], ok |-> 1]
    ELSE [z |-> z, ok |-> 0]

(* One [0xFF 0xFF page] header and the raw bank that follows it. *)
SaveBlock(z, page, bank) ==
    BsAppend(BsOfSeq(<<255, 255, page>>), BsOfBank(z.ram_banks[bank]))

RECURSIVE SaveBanks(_, _)
SaveBanks(z, bank) ==
    IF bank >= RAM_BANK_COUNT THEN BsOfSeq(<<>>)
    ELSE BsAppend(SaveBlock(z, 3 + bank, bank), SaveBanks(z, bank + 1))

SaveHeader(z) ==
    <<z.a, z.f, z.c, z.b, z.l, z.h, 0, 0, z.sp % 256, Shr(z.sp, 8) % 256,
      z.i, z.r % 128,
      U8(Bit(z.r, 7) + 2 * (z.border_color % 8)),
      z.e, z.d, z.c_, z.b_, z.e_, z.d_, z.l_, z.h_, z.a_, z.f_,
      z.iy % 256, Shr(z.iy, 8) % 256, z.ix % 256, Shr(z.ix, 8) % 256,
      IF z.iff1 # 0 THEN 1 ELSE 0, IF z.iff2 # 0 THEN 1 ELSE 0, z.im % 4>>

SaveExt_128_only(z) ==
    wr16le(z.pc)
    \o << IF z.machine_type # MACHINE_48K THEN 4 ELSE 0,
          IF z.machine_type # MACHINE_48K THEN z.port_7ffd ELSE 0,
          0,
          IF z.machine_type # MACHINE_48K THEN 4 ELSE 0,
          z.ay.selected_reg >>
    \o z.ay.regs
    \o [k \in 1 .. 31 |-> 0]

SaveExt(z) ==
    wr16le(z.pc)
    \o << IF z.machine_type = MACHINE_128K THEN 4
          ELSE IF z.machine_type = MACHINE_PLUS2 THEN 12 ELSE 0,
          IF z.machine_type # MACHINE_48K THEN z.port_7ffd ELSE 0,
          0,
          IF z.machine_type # MACHINE_48K THEN 4 ELSE 0,
          z.ay.selected_reg >>
    \o z.ay.regs
    \o [k \in 1 .. 31 |-> 0]

zx_save_z80(z) ==
    BsAppend(BsOfSeq(SaveHeader(z) \o wr16le(54) \o SaveExt(z)),
             IF z.machine_type = MACHINE_48K
             THEN BsAppend(SaveBlock(z, 8, 5),
                           BsAppend(SaveBlock(z, 4, 2), SaveBlock(z, 5, 0)))
             ELSE SaveBanks(z, 0))

LoadFail(z, err) == [z |-> z, ok |-> FALSE, err |-> err]

(* The common register restore at the top of zx_load_z80 (h = buf[0..29]). *)
LoadHeader(z, buf) ==
    LET flags12 == IF BsGet(buf, 12) = 255 THEN 1 ELSE BsGet(buf, 12)
    IN [z EXCEPT
          !.a = BsGet(buf, 0), !.f = BsGet(buf, 1), !.c = BsGet(buf, 2),
          !.b = BsGet(buf, 3), !.l = BsGet(buf, 4), !.h = BsGet(buf, 5),
          !.sp = BsRd16(buf, 8), !.i = BsGet(buf, 10),
          !.r = (BsGet(buf, 11) % 128) + 128 * (flags12 % 2),
          !.border_color = Shr(flags12, 1) % 8,
          !.e = BsGet(buf, 13), !.d = BsGet(buf, 14),
          !.c_ = BsGet(buf, 15), !.b_ = BsGet(buf, 16),
          !.e_ = BsGet(buf, 17), !.d_ = BsGet(buf, 18),
          !.l_ = BsGet(buf, 19), !.h_ = BsGet(buf, 20),
          !.a_ = BsGet(buf, 21), !.f_ = BsGet(buf, 22),
          !.iy = BsRd16(buf, 23), !.ix = BsRd16(buf, 25),
          !.iff1 = IF BsGet(buf, 27) # 0 THEN 1 ELSE 0,
          !.iff2 = IF BsGet(buf, 28) # 0 THEN 1 ELSE 0,
          !.im = BsGet(buf, 29) % 4,
          !.ei_delay = 0, !.halted = 0,
          !.int_vector = 255, !.int_vector_fixed = 0,
          !.ay = [AyZero EXCEPT !.noise_shift = 1]]

(* The version 1 branch (stored PC field non-zero). *)
LoadV1(z0, buf, pc_v1) ==
    LET z == [update_memory_mapping(
                [z0 EXCEPT !.machine_type = MACHINE_48K,
                           !.tstates_per_frame = TSTATES_PER_FRAME_48K,
                           !.port_7ffd = 0, !.paging_disabled = 0])
              EXCEPT !.pc = pc_v1]
        flags12 == IF BsGet(buf, 12) = 255 THEN 1 ELSE BsGet(buf, 12)
        mem_len == buf.len - 30
        compressed == Bit(flags12, 5) = 1
        d == z80_rle_decompress(buf, 30, mem_len, 3 * RAM_BANK_SIZE, TRUE)
        ram48 == IF compressed THEN d.out ELSE BsBank(buf, 30, 3 * RAM_BANK_SIZE)
        src == [len |-> 3 * RAM_BANK_SIZE, at |-> ram48]
    IN IF compressed /\ ~d.ok
       THEN LoadFail(z, "Invalid Z80 v1 snapshot: decompression failed")
       ELSE IF ~compressed /\ mem_len < 3 * RAM_BANK_SIZE
       THEN LoadFail(z, "Invalid Z80 v1 snapshot: truncated RAM image")
       ELSE [z |-> zx_snapshot_cleanup_runtime(
                     [z EXCEPT !.ram_banks[5] = BsBank(src, 0, RAM_BANK_SIZE),
                               !.ram_banks[2] = BsBank(src, RAM_BANK_SIZE, RAM_BANK_SIZE),
                               !.ram_banks[0] = BsBank(src, 2 * RAM_BANK_SIZE, RAM_BANK_SIZE)]),
             ok |-> TRUE, err |-> ""]

(* The memory-block loop of the version 2/3 branch. *)
RECURSIVE LoadBlocks(_, _, _, _)
LoadBlocks(z, buf, pos, any_blocks) ==
    IF ~(pos + 3 <= buf.len)
    THEN IF any_blocks = 0
         THEN LoadFail(z, "Invalid Z80 snapshot: no memory blocks")
         ELSE [z |-> zx_snapshot_cleanup_runtime(z), ok |-> TRUE, err |-> ""]
    ELSE
      LET blen == BsRd16(buf, pos)
          page == BsGet(buf, pos + 2)
          p == pos + 3
      IN IF blen = 65535
         THEN IF p + RAM_BANK_SIZE > buf.len
              THEN LoadFail(z, "Invalid Z80 snapshot: truncated uncompressed block")
              ELSE LET a == z80_apply_page(z, page, BsBank(buf, p, RAM_BANK_SIZE))
                   IN LoadBlocks(a.z, buf, p + RAM_BANK_SIZE,
                                 IF a.ok # 0 THEN 1 ELSE any_blocks)
         ELSE IF p + blen > buf.len
              THEN LoadFail(z, "Invalid Z80 snapshot: truncated compressed block")
              ELSE LET d == z80_rle_decompress(buf, p, blen, RAM_BANK_SIZE, FALSE)
                       a == z80_apply_page(z, page, d.out)
                   IN IF ~d.ok
                      THEN LoadFail(z, "Invalid Z80 snapshot: block decompression failed")
                      ELSE LoadBlocks(a.z, buf, p + blen,
                                      IF a.ok # 0 THEN 1 ELSE any_blocks)

(* The version 2/3 branch up to the block loop (ext = buf + 32). *)
LoadV23(z0, buf) ==
    IF buf.len < 32
    THEN LoadFail(z0, "Invalid Z80 snapshot: missing extended header")
    ELSE
      LET ext_len == BsRd16(buf, 30) IN
      IF buf.len < 32 + ext_len
      THEN LoadFail(z0, "Invalid Z80 snapshot: truncated extended header")
      ELSE
        LET hw == IF ext_len >= 3 THEN BsGet(buf, 34) ELSE 0
            machine == IF hw = 0 \/ hw = 1 THEN MACHINE_48K
                       ELSE IF hw = 12 THEN MACHINE_PLUS2 ELSE MACHINE_128K
            p7ffd == IF ext_len >= 4 THEN BsGet(buf, 35) ELSE 0
            z1 == [z0 EXCEPT
                     !.pc = BsRd16(buf, 32),
                     !.machine_type = machine,
                     !.tstates_per_frame = IF machine = MACHINE_48K
                                           THEN TSTATES_PER_FRAME_48K
                                           ELSE TSTATES_PER_FRAME_128K,
                     !.port_7ffd = p7ffd,
                     !.paging_disabled = Bit(p7ffd, 5)]
            z2 == IF machine # MACHINE_48K /\ ext_len >= 23
                  THEN [z1 EXCEPT !.ay.selected_reg = BsGet(buf, 38) % 16,
                                  !.ay.regs = [k \in 1 .. 16 |-> BsGet(buf, 38 + k)],
                                  !.ay.noise_shift = 1]
                  ELSE z1
        IN LoadBlocks(update_memory_mapping(z2), buf, 32 + ext_len, 0)

zx_load_z80_zero_legacy(z, buf) ==
    IF buf.len < 30
    THEN LoadFail(z, "Invalid Z80 snapshot: too small")
    ELSE IF BsRd16(buf, 6) = 0
    THEN LoadV1(LoadHeader(z, buf), buf, BsRd16(buf, 6))
    ELSE LoadV23(LoadHeader(z, buf), buf)

zx_load_z80(z, buf) ==
    IF buf.len < 30
    THEN LoadFail(z, "Invalid Z80 snapshot: too small")
    ELSE IF BsRd16(buf, 6) # 0
    THEN LoadV1(LoadHeader(z, buf), buf, BsRd16(buf, 6))
    ELSE LoadV23(LoadHeader(z, buf), buf)

(***************************************************************************)
(* Tape file loaders.  Files are byte sequences; pos is a 0-based offset.  *)
(* The result carries trunc, set when parsing stopped at a bounds check    *)
(* (or, for TAP, short of the end of the data).  realloc and malloc of a   *)
(* non-zero size are taken to succeed; malloc(0) may return NULL, which is *)
(* the parameter malloc0_null.  An error is the message and its arguments. *)
(***************************************************************************)
TapBlock_turbo(data) ==
    [data |-> data, len |-> Len(data), has_pilot_sync |-> 1, is_turbo |-> 1,
     used_bits_last |-> 8, pause_defined |-> 0, pause_ms |-> 0,
     pilot_len |-> 2168, sync1_len |-> 667, sync2_len |-> 735,
     bit0_len |-> 855, bit1_len |-> 1710, pilot_pulses |-> 0,
     start_level_set |-> 0, start_level |-> 1]

TapBlock(data) ==
    [data |-> data, len |-> Len(data), has_pilot_sync |-> 1, is_turbo |-> 0,
     used_bits_last |-> 8, pause_defined |-> 0, pause_ms |-> 0,
     pilot_len |-> 2168, sync1_len |-> 667, sync2_len |-> 735,
     bit0_len |-> 855, bit1_len |-> 1710, pilot_pulses |-> 0,
     start_level_set |-> 0, start_level |-> 1]

AppendBlock(z, blk) ==
    [z EXCEPT !.tape.blocks = Append(@, blk), !.tape.block_count = @ + 1]

(* The tail shared by zx_load_tap and zx_load_tzx. *)
LoadFinish(z) ==
    [z EXCEPT !.tape.loaded = IF z.tape.block_count > 0 THEN 1 ELSE 0,
              !.tape.playing = 0, !.tape_active = 0,
              !.tape.phase = TAPE_PHASE_STOP, !.tape.ear_level = 0,
              !.tape.autostarted = 0]

TapeLoaded(z, trunc) ==
    [z |-> LoadFinish(z), ok |-> LoadFinish(z).tape.loaded # 0, err |-> <<>>,
     trunc |-> trunc]

TapeFailed(z, err, trunc) ==
    [z |-> tape_free_state(z), ok |-> FALSE, err |-> err, trunc |-> trunc]

RECURSIVE TapLoop(_, _, _, _)
TapLoop(z, data, pos, malloc0_null) ==
    IF ~(pos + 2 <= Len(data)) THEN TapeLoaded(z, pos < Len(data))
    ELSE LET blen == rd16le(data, pos)
             p == pos + 2
         IN IF p + blen > Len(data) THEN TapeLoaded(z, TRUE)
            ELSE IF blen = 0 /\ malloc0_null
            THEN TapeFailed(z, <<"Out of memory while copying TAP block">>, FALSE)
            ELSE TapLoop(AppendBlock(z, TapBlock(SubSeq(data, p + 1, p + blen))),
                         data, p + blen, malloc0_null)

zx_load_tap(z, data, malloc0_null) ==
    TapLoop(tape_rewind(tape_free_state(z)), data, 0, malloc0_null)

(* tzx_append_block leaving the pause of the block undefined. *)
tzx_append_block_no_pause(z, data) ==
    IF Len(data) > 65535 THEN [z |-> z, ok |-> 0]
    ELSE [z |-> AppendBlock(z, TapBlock(data)), ok |-> 1]

tzx_append_block(z, data) ==
    IF Len(data) > 65535 THEN [z |-> z, ok |-> 0]
    ELSE [z |-> AppendBlock(z, [TapBlock(data) EXCEPT !.pause_defined = 1]),
          ok |-> 1]

(* A skip over a fixed part of fix bytes followed by n more bytes, each     *)
(* with its bounds check; r = 0 when the file ends first.                  *)
SkipLen(buf, p, fix, n) ==
    IF p + fix > Len(buf) THEN [r |-> 0, pos |-> p]
    ELSE IF p + fix + n > Len(buf) THEN [r |-> 0, pos |-> p]
    ELSE [r |-> 1, pos |-> p + fix + n]

SkipFixed(buf, p, fix) ==
    IF p + fix > Len(buf) THEN [r |-> 0, pos |-> p] ELSE [r |-> 1, pos |-> p + fix]

(* Reads that are only evaluated once the bounds check has passed. *)
Rd8(buf, p) == IF p + 1 <= Len(buf) THEN buf[p + 1] ELSE 0

Rd16(buf, p) == IF p + 2 <= Len(buf) THEN rd16le(buf, p) ELSE 0

Rd24(buf, p) == IF p + 3 <= Len(buf) THEN rd24le(buf, p) ELSE 0

Rd32(buf, p) == IF p + 4 <= Len(buf) THEN rd32le(buf, p) ELSE 0

tzx_skip_block_lenient(buf, p, id) ==
    CASE id = 18 -> SkipFixed(buf, p, 4)
      [] id = 19 -> SkipLen(buf, p, 1, Rd8(buf, p) * 2)
      [] id = 21 -> SkipLen(buf, p, 8, Rd24(buf, p + 5))
      [] id \in {24, 25, 42, 43} -> SkipLen(buf, p, 4, Rd32(buf, p))
      [] id \in {32, 35, 36} -> SkipFixed(buf, p, 2)
      [] id \in {33, 48} -> SkipLen(buf, p, 1, Rd8(buf, p))
      [] id \in {34, 37, 39} -> [r |-> 1, pos |-> p]
      [] id = 38 -> SkipLen(buf, p, 2, Rd16(buf, p) * 2)
      [] id \in {40, 50} -> SkipLen(buf, p, 2, Rd16(buf, p))
      [] id = 49 -> SkipLen(buf, p, 2, Rd8(buf, p + 1))
      [] id = 51 -> SkipLen(buf, p, 1, Rd8(buf, p) * 3)
      [] id = 53 -> SkipLen(buf, p, 20, Rd32(buf, p + 16))
      [] id = 90 -> SkipFixed(buf, p, 9)
      [] OTHER -> [r |-> 0, pos |-> p]

tzx_skip_block(buf, p, id) ==
    CASE id = 18 -> SkipFixed(buf, p, 4)
      [] id = 19 -> SkipLen(buf, p, 1, Rd8(buf, p) * 2)
      [] id = 21 -> SkipLen(buf, p, 8, Rd24(buf, p + 5))
      [] id \in {24, 25, 42, 43} -> SkipLen(buf, p, 4, Rd32(buf, p))
      [] id \in {32, 35, 36} -> SkipFixed(buf, p, 2)
      [] id \in {33, 48} -> SkipLen(buf, p, 1, Rd8(buf, p))
      [] id \in {34, 37, 39} -> [r |-> 1, pos |-> p]
      [] id = 38 -> SkipLen(buf, p, 2, Rd16(buf, p) * 2)
      [] id \in {40, 50} -> SkipLen(buf, p, 2, Rd16(buf, p))
      [] id = 49 -> SkipLen(buf, p, 2, Rd8(buf, p + 1))
      [] id = 51 -> SkipLen(buf, p, 1, Rd8(buf, p) * 3)
      [] id = 53 -> SkipLen(buf, p, 20, Rd32(buf, p + 16))
      [] id = 90 -> SkipFixed(buf, p, 9)
      [] OTHER -> [r |-> -1, pos |-> p]

(* Locals of zx_load_tzx that live across loop iterations. *)
TzxPendingInit ==
    [have_pilot |-> 0, pilot_len |-> 0, pilot_pulses |-> 0,
     have_sync |-> 0, sync1 |-> 0, sync2 |-> 0,
     level_set |-> 0, level |-> 1]

(* The last appended block with the given fields replaced, and the pending *)
(* start level applied when one is set.                                    *)
SetLast(z, blk, pend) ==
    [z EXCEPT !.tape.blocks[z.tape.block_count] =
        IF pend.level_set # 0
        THEN [blk EXCEPT !.start_level_set = 1, !.start_level = pend.level]
        ELSE blk]

LastBlock(z) == z.tape.blocks[z.tape.block_count]

TzxOom(z) == TapeFailed(z, <<"Out of memory while parsing TZX">>, FALSE)

RECURSIVE TzxLoop(_, _, _, _)

(* ID 0x10: standard speed data block. *)
TzxStandard(z, buf, pos, pend) ==
    IF pos + 4 > Len(buf) THEN TapeLoaded(z, TRUE)
    ELSE LET pause_ms == rd16le(buf, pos)
             blen == rd16le(buf, pos + 2)
             p == pos + 4
             a == tzx_append_block(z, SubSeq(buf, p + 1, p + blen))
         IN IF p + blen > Len(buf) THEN TapeLoaded(z, TRUE)
            ELSE IF a.ok = 0 THEN TzxOom(z)
            ELSE TzxLoop(SetLast(a.z, [LastBlock(a.z) EXCEPT
                                         !.pause_ms = pause_ms,
                                         !.has_pilot_sync = 1,
                                         !.is_turbo = 0], pend),
                         buf, p + blen,
                         [pend EXCEPT !.level_set = 0, !.have_pilot = 0,
                                      !.have_sync = 0])

(* ID 0x11: turbo speed data block. *)
TzxTurbo(z, buf, pos, pend) ==
    IF pos + 18 > Len(buf) THEN TapeLoaded(z, TRUE)
    ELSE LET used_bits == buf[pos + 12 + 1]
             blen == rd24le(buf, pos + 15)
             p == pos + 18
             a == tzx_append_block(z, SubSeq(buf, p + 1, p + blen))
         IN IF p + blen > Len(buf) THEN TapeLoaded(z, TRUE)
            ELSE IF a.ok = 0 THEN TzxOom(z)
            ELSE TzxLoop(SetLast(a.z, [LastBlock(a.z) EXCEPT
                                         !.pause_ms = rd16le(buf, pos + 13),
                                         !.has_pilot_sync = 1,
                                         !.is_turbo = 1,
                                         !.used_bits_last =
                                             IF used_bits = 0 THEN 8 ELSE used_bits,
                                         !.pilot_len = rd16le(buf, pos),
                                         !.sync1_len = rd16le(buf, pos + 2),
                                         !.sync2_len = rd16le(buf, pos + 4),
                                         !.bit0_len = rd16le(buf, pos + 6),
                                         !.bit1_len = rd16le(buf, pos + 8),
                                         !.pilot_pulses = rd16le(buf, pos + 10)],
                                  pend),
                         buf, p + blen,
                         [pend EXCEPT !.level_set = 0, !.have_pilot = 0,
                                      !.have_sync = 0])

(* The block of ID 0x14 once the pending tone and pulses are merged in. *)
PureMerged(blk, pend) ==
    IF pend.have_pilot # 0 \/ pend.have_sync # 0
    THEN [blk EXCEPT
            !.has_pilot_sync = 1,
            !.pilot_len = IF pend.have_pilot # 0 THEN pend.pilot_len ELSE @,
            !.pilot_pulses = IF pend.have_pilot # 0 THEN pend.pilot_pulses ELSE @,
            !.is_turbo = IF pend.have_pilot # 0 THEN 1 ELSE @,
            !.sync1_len = IF pend.have_sync # 0 THEN pend.sync1 ELSE @,
            !.sync2_len = IF pend.have_sync # 0 THEN pend.sync2 ELSE @]
    ELSE blk

(* ID 0x14: pure data block. *)
TzxPure(z, buf, pos, pend) ==
    IF pos + 10 > Len(buf) THEN TapeLoaded(z, TRUE)
    ELSE LET used_bits == buf[pos + 4 + 1]
             blen == rd24le(buf, pos + 7)
             p == pos + 10
             a == tzx_append_block(z, SubSeq(buf, p + 1, p + blen))
         IN IF p + blen > Len(buf) THEN TapeLoaded(z, TRUE)
            ELSE IF a.ok = 0 THEN TzxOom(z)
            ELSE TzxLoop(SetLast(a.z, PureMerged([LastBlock(a.z) EXCEPT
                                         !.pause_ms = rd16le(buf, pos + 5),
                                         !.has_pilot_sync = 0,
                                         !.is_turbo = 1,
                                         !.used_bits_last =
                                             IF used_bits = 0 THEN 8 ELSE used_bits,
                                         !.bit0_len = rd16le(buf, pos),
                                         !.bit1_len = rd16le(buf, pos + 2)],
                                      pend), pend),
                         buf, p + blen,
                         IF pend.have_pilot # 0 \/ pend.have_sync # 0
                         THEN [pend EXCEPT !.level_set = 0, !.have_pilot = 0,
                                           !.have_sync = 0]
                         ELSE [pend EXCEPT !.level_set = 0])

(* ID 0x20: pause, kept as an empty block. *)
TzxPause(z, buf, pos, pend) ==
    IF pos + 2 > Len(buf) THEN TapeLoaded(z, TRUE)
    ELSE LET a == tzx_append_block(z, <<>>)
         IN IF a.ok = 0 THEN TzxOom(z)
            ELSE TzxLoop([a.z EXCEPT !.tape.blocks[a.z.tape.block_count] =
                            [@ EXCEPT !.pause_ms = rd16le(buf, pos),
                                      !.has_pilot_sync = 0, !.is_turbo = 0]],
                         buf, pos + 2,
                         [pend EXCEPT !.have_pilot = 0, !.have_sync = 0,
                                      !.level_set = 0])

(* ID 0x12: pure tone, remembered for a following 0x14. *)
TzxTone(z, buf, pos, pend) ==
    IF pos + 4 > Len(buf) THEN TapeLoaded(z, TRUE)
    ELSE TzxLoop(z, buf, pos + 4,
                 [pend EXCEPT !.pilot_len = rd16le(buf, pos),
                              !.pilot_pulses = rd16le(buf, pos + 2),
                              !.have_pilot = 1])

(* ID 0x13: pulse sequence, remembered for a following 0x14. *)
TzxPulses(z, buf, pos, pend) ==
    IF pos + 1 > Len(buf) THEN TapeLoaded(z, TRUE)
    ELSE LET n == buf[pos + 1]
             p == pos + 1
             s1 == IF n >= 1 THEN rd16le(buf, p) ELSE pend.sync1
         IN IF p + n * 2 > Len(buf) THEN TapeLoaded(z, TRUE)
            ELSE TzxLoop(z, buf, p + n * 2,
                         [pend EXCEPT !.sync1 = s1,
                                      !.sync2 = IF n >= 2 THEN rd16le(buf, p + 2) ELSE s1,
                                      !.have_sync = IF n > 0 THEN 1 ELSE 0])

(* ID 0x2B: set signal level, applied to the next block. *)
TzxLevel(z, buf, pos, pend) ==
    IF pos + 4 > Len(buf) THEN TapeLoaded(z, TRUE)
    ELSE LET bl == rd32le(buf, pos)
             p == pos + 4
         IN IF p + bl > Len(buf) THEN TapeLoaded(z, TRUE)
            ELSE TzxLoop(z, buf, p + bl,
                         IF bl >= 1
                         THEN [pend EXCEPT !.level_set = 1,
                                           !.level = IF buf[p + 1] # 0 THEN 1 ELSE 0]
                         ELSE pend)

(* Any other ID goes through tzx_skip_block. *)
TzxOther(z, buf, pos, pend, sk, id) ==
    IF sk.r = -1
    THEN TapeFailed(z, <<"Unsupported TZX block id 0x%02X", id>>, FALSE)
    ELSE IF sk.r = 0 THEN TapeLoaded(z, TRUE)
    ELSE TzxLoop(z, buf, sk.pos, pend)

(* The while loop of zx_load_tzx; pos is the offset of the next block ID. *)
TzxLoop(z, buf, pos, pend) ==
    IF ~(pos < Len(buf)) THEN TapeLoaded(z, FALSE)
    ELSE LET id == buf[pos + 1] IN
         CASE id = 16 -> TzxStandard(z, buf, pos + 1, pend)
           [] id = 17 -> TzxTurbo(z, buf, pos + 1, pend)
           [] id = 20 -> TzxPure(z, buf, pos + 1, pend)
           [] id = 32 -> TzxPause(z, buf, pos + 1, pend)
           [] id = 18 -> TzxTone(z, buf, pos + 1, pend)
           [] id = 19 -> TzxPulses(z, buf, pos + 1, pend)
           [] id = 43 -> TzxLevel(z, buf, pos + 1, pend)
           [] OTHER -> TzxOther(z, buf, pos + 1, pend,
                                tzx_skip_block(buf, pos + 1, id), id)

(* "ZXTape!" followed by 0x1A *)
TzxMagic == <<90, 88, 84, 97, 112, 101, 33, 26>>

zx_load_tzx(z, buf) ==
    IF Len(buf) < 10 \/ SubSeq(buf, 1, 8) # TzxMagic
    THEN [z |-> z, ok |-> FALSE, err |-> <<"Invalid TZX header">>, trunc |-> FALSE]
    ELSE TzxLoop(tape_rewind(tape_free_state(z)), buf, 10, TzxPendingInit)

(***************************************************************************)
(* Audio sink (zx.audio.c).  The record audio holds the statics of the     *)
(* module (initialized, sample_rate, hw_period_frames, ring_rpos,          *)
(* ring_wpos, ring_count, audio_ring) and the position and locals of a     *)
(* zx_audio_write call in progress: pc is "idle" outside the call and      *)
(* "flush" at the head of the while loop of audio_flush_nonblocking, whose *)
(* locals are delay_frames, target_delay and total_written.  audio_ring    *)
(* is kept as the set of its runs: a run says that the len slots from slot *)
(* on hold the sample values first, first + step, first + 2 * step, ...;   *)
(* a slot in no run holds zero, as all of static storage does at first.    *)
(* A buffer of samples is given in the same way, by its first sample and   *)
(* the step from one sample to the next (both channels of a frame carry    *)
(* the same sample).                                                       *)
(***************************************************************************)
AudioOff ==
    [initialized |-> 0, sample_rate |-> 44100, hw_period_frames |-> 0,
     ring_rpos |-> 0, ring_wpos |-> 0, ring_count |-> 0,
     pc |-> "idle", delay_frames |-> 0, target_delay |-> 0, total_written |-> 0,
     audio_ring |-> {}]

(* The state zx_audio_init leaves on success. *)
AudioOn(rate, period) ==
    [AudioOff EXCEPT !.initialized = 1, !.sample_rate = rate,
                     !.hw_period_frames = period]

ring_reset(a) == [a EXCEPT !.ring_rpos = 0, !.ring_wpos = 0, !.ring_count = 0]

ring_drop_oldest_keep_rpos(a, frames) ==
    IF frames >= a.ring_count THEN ring_reset(a)
    ELSE [a EXCEPT !.ring_count = @ - frames]

ring_drop_oldest(a, frames) ==
    IF frames >= a.ring_count THEN ring_reset(a)
    ELSE [a EXCEPT !.ring_rpos = (@ + frames) % ZX_AUDIO_RING_FRAMES,
                   !.ring_count = @ - frames]

(* A buffer of zero samples. *)
Silence == [first |-> 0, step |-> 0]

(* The buffer n samples further on. *)
BufferAt(stereo, n) == [stereo EXCEPT !.first = @ + n * stereo.step]

(* The memcpy of ring_write_stereo_frames: the first chunk frames of the  *)
(* buffer stereo go to the slots from wpos on.                            *)
RingStore(ring, wpos, chunk, stereo) ==
    LET end == wpos + chunk
        Before(r) == IF r.slot < wpos
                     THEN {[r EXCEPT !.len = IF r.slot + @ < wpos THEN @ ELSE wpos - r.slot]}
                     ELSE {}
        After(r) == IF r.slot + r.len > end
                    THEN IF r.slot >= end THEN {r}
                         ELSE {[slot |-> end, len |-> r.slot + r.len - end,
                                first |-> r.first + (end - r.slot) * r.step,
                                step |-> r.step]}
                    ELSE {}
    IN UNION {Before(r) \cup After(r) : r \in ring}
         \cup (IF stereo = Silence THEN {}
               ELSE {[slot |-> wpos, len |-> chunk, first |-> stereo.first,
                      step |-> stereo.step]})

(* The sample held by slot s of the ring. *)
RingAt(ring, s) ==
    LET R == {r \in ring : r.slot <= s /\ s < r.slot + r.len}
    IN IF R = {} THEN 0
       ELSE LET r == CHOOSE x \in R : TRUE IN r.first + (s - r.slot) * r.step

(* The copy loop of ring_write_stereo_frames. *)
RECURSIVE RingCopy(_, _, _)
RingCopy(a, stereo, frames) ==
    IF frames <= 0 THEN a
    ELSE LET until_wrap == ZX_AUDIO_RING_FRAMES - a.ring_wpos
             chunk == IF frames > until_wrap THEN until_wrap ELSE frames
         IN RingCopy([a EXCEPT !.audio_ring = RingStore(@, a.ring_wpos, chunk, stereo),
                               !.ring_wpos = (@ + chunk) % ZX_AUDIO_RING_FRAMES,
                               !.ring_count = @ + chunk],
                     BufferAt(stereo, chunk), frames - chunk)

ring_write_stereo_frames(a, stereo, frames) ==
    IF frames = 0 THEN a
    ELSE LET free_frames == ZX_AUDIO_RING_FRAMES - a.ring_count
         IN RingCopy(IF frames > free_frames
                     THEN ring_drop_oldest(a, frames - free_frames) ELSE a,
                     stereo, frames)

ring_read_contiguous(a) ==
    IF a.ring_count = 0 THEN 0
    ELSE LET until_wrap == ZX_AUDIO_RING_FRAMES - a.ring_rpos
         IN IF a.ring_count < until_wrap THEN a.ring_count ELSE until_wrap

(* The enqueue loop of zx_audio_write: the mono_frames samples of the      *)
(* buffer mono, converted and written to the ring one stereo_buffer at a   *)
(* time.                                                                   *)
RECURSIVE EnqueueChunks(_, _, _)
EnqueueChunks(a, mono, mono_frames) ==
    IF mono_frames <= 0 THEN a
    ELSE LET chunk_frames == STEREO_BUFFER_LEN \div 2
             frames == IF mono_frames < chunk_frames THEN mono_frames ELSE chunk_frames
         IN EnqueueChunks(ring_write_stereo_frames(a, mono, frames),
                          BufferAt(mono, frames), mono_frames - frames)

(* get_pcm_delay_frames; st is the answer of the status ioctl: ok and the  *)
(* delay it reports.  The result is the value of delay_frames afterwards.  *)
get_pcm_delay_frames(st) ==
    IF ~st.ok THEN 0
    ELSE IF st.delay < 0 THEN 0
    ELSE IF st.delay > 2147483647 THEN 2147483647 ELSE st.delay

(* audio_flush_nonblocking up to the head of its loop. *)
FlushEnter(a, st) ==
    LET delay_frames == get_pcm_delay_frames(st)
        desired == (a.sample_rate * 130) \div 1000
        target_delay == IF a.hw_period_frames > 0 /\ a.hw_period_frames > desired
                        THEN a.hw_period_frames ELSE desired
        max_delay == target_delay + (a.sample_rate * 40) \div 1000
    IN IF delay_frames > max_delay
       THEN [a |-> a, returned |-> TRUE, result |-> 0]
       ELSE [a |-> [a EXCEPT !.pc = "flush", !.delay_frames = delay_frames,
                             !.target_delay = target_delay, !.total_written = 0],
             returned |-> FALSE, result |-> 0]

(* How many frames the loop offers to the device, 0 when it breaks first. *)
FlushOffer(a) ==
    LET frames == ring_read_contiguous(a)
        budget == a.target_delay - a.delay_frames
    IN IF a.ring_count = 0 \/ a.delay_frames >= a.target_delay \/ frames = 0
          \/ budget <= 0
       THEN 0
       ELSE IF frames > budget THEN budget ELSE frames

FlushReturn(a) ==
    [a |-> [a EXCEPT !.pc = "idle"], returned |-> TRUE, result |-> a.total_written]

FlushIter_retry(a, xfer) ==
    IF FlushOffer(a) = 0 THEN FlushReturn(a)
    ELSE IF xfer.err = "EAGAIN" THEN [a |-> a, returned |-> FALSE, result |-> 0]
    ELSE IF xfer.err # "" THEN FlushReturn(a)
    ELSE IF xfer.result <= 0 THEN FlushReturn(a)
    ELSE [a |-> [a EXCEPT !.ring_rpos = (@ + xfer.result) % ZX_AUDIO_RING_FRAMES,
                          !.ring_count = @ - xfer.result,
                          !.total_written = @ + xfer.result,
                          !.delay_frames = @ + xfer.result],
          returned |-> FALSE, result |-> 0]

(* One pass of the loop; xfer is the answer of the write ioctl: err is     *)
(* "" when the ioctl returned 0 and otherwise the errno, result is         *)
(* xfer.result.                                                            *)
FlushIter(a, xfer) ==
    IF FlushOffer(a) = 0 THEN FlushReturn(a)
    ELSE IF xfer.err # "" THEN FlushReturn(a)
    ELSE IF xfer.result <= 0 THEN FlushReturn(a)
    ELSE [a |-> [a EXCEPT !.ring_rpos = (@ + xfer.result) % ZX_AUDIO_RING_FRAMES,
                          !.ring_count = @ - xfer.result,
                          !.total_written = @ + xfer.result,
                          !.delay_frames = @ + xfer.result],
          returned |-> FALSE, result |-> 0]

(***************************************************************************)
(* Frame driver (zx_run_frame).  frame holds the locals of the call and    *)
(* its position: "idle" outside the call, "loop" at the head of the while  *)
(* loop.  obs records what the last action did (it is not program state).  *)
(***************************************************************************)
INT_TSTATE == 64 * 224

MaxFrames == 1

FrameIdle == [pc |-> "idle", int_fired |-> 0, count |-> 0]

(* Registers at an instruction boundary, as the interrupt logic sees them. *)
Boundary(z) ==
    [pc |-> z.pc, sp |-> z.sp, iff1 |-> z.iff1, iff2 |-> z.iff2,
     ei_delay |-> z.ei_delay, halted |-> z.halted, ram |-> z.ram_banks]

(* op: the operation just performed; tcost: T-states of the instruction    *)
(* just executed; tbefore: frame counter before it; ints: interrupts       *)
(* raised so far in this frame; raised: whether this iteration raised one; *)
(* pre: the boundary state after the instruction and before the interrupt; *)
(* edges: the tape pulse edges that occurred during the operation.         *)
ObsNone ==
    [op |-> "init", tcost |-> 0, tbefore |-> 0, ints |-> 0, raised |-> FALSE,
     pre |-> Boundary(ZeroState), edges |-> <<>>]

FrameDone_gt(z) == z.tstates > z.tstates_per_frame

(* The loop condition of zx_run_frame, negated. *)
FrameDone(z) == z.tstates >= z.tstates_per_frame

IntDue_nolatch(z, int_fired) == z.tstates >= INT_TSTATE

(* Condition under which the loop body raises the frame interrupt. *)
IntDue(z, int_fired) == int_fired = 0 /\ z.tstates >= INT_TSTATE

RunFrameEnter ==
    /\ frame.pc = "idle"
    /\ frame.count < MaxFrames
    /\ zx' = [zx EXCEPT !.tstates = 0, !.screen_dirty = 0, !.audio_sample_idx = 0,
                         !.audio_fed = 0, !.tape_fed = 0]
    /\ frame' = [pc |-> "loop", int_fired |-> 0, count |-> frame.count + 1]
    /\ obs' = [ObsNone EXCEPT !.op = "enter"]
    /\ UNCHANGED ret
    /\ UNCHANGED audio

(* The body of the loop after execute_one has returned r: the frame counter  *)
(* advances by the instruction's cost, then the interrupt is raised if due.  *)
IterInterrupt(r, z1, due) ==
    /\ zx' = [(IF due THEN handle_interrupt(z1) ELSE z1) EXCEPT !.edges = <<>>]
    /\ frame' = [frame EXCEPT !.int_fired = IF due THEN 1 ELSE @]
    /\ obs' = [obs EXCEPT !.op = "iter", !.tcost = r.t,
                          !.tbefore = zx.tstates,
                          !.ints = IF due THEN @ + 1 ELSE @,
                          !.raised = due, !.pre = Boundary(z1),
                          !.edges = r.z.edges]

IterAdvance(r, z1) == IterInterrupt(r, z1, IntDue(z1, frame.int_fired))

IterBody(r) == IterAdvance(r, [r.z EXCEPT !.tstates = @ + r.t])

RunFrameIter ==
    /\ frame.pc = "loop"
    /\ ~FrameDone(zx)
    /\ IterBody(execute_one(zx))
    /\ UNCHANGED ret
    /\ UNCHANGED audio

RunFrameReturn ==
    /\ frame.pc = "loop"
    /\ FrameDone(zx)
    /\ ret' = zx.screen_dirty
    /\ frame' = [frame EXCEPT !.pc = "idle"]
    /\ obs' = [obs EXCEPT !.op = "return"]
    /\ UNCHANGED zx
    /\ UNCHANGED audio

(* ROM images: program bytes at the given addresses, zero (NOP) elsewhere. *)
Image(f, n) == [k \in 1 .. n |-> IF (k - 1) \in DOMAIN f THEN f[k - 1] ELSE 0]

FramePrograms ==
    { <<0>>,
      <<118>>,
      <<251, 118>>,
      <<251, 243, 0, 251, 251, 0, 118>>,
      <<195, 0, 0>>,
      <<251, 237, 86, 245, 50, 0, 192, 118>>,
      <<251, 221, 62, 7, 243, 255>>,
      Image(3583 :> 251, 3584),
      Image(3583 :> 118, 3584),
      Image(3582 :> 251 @@ 3583 :> 251 @@ 3584 :> 245, 3585) }

FrameMachines == {MACHINE_48K, MACHINE_128K, MACHINE_PLUS2}

RomLen(m) == IF m = MACHINE_48K THEN 16384 ELSE 32768

InitFrame ==
    /\ \E m \in FrameMachines, p \in FramePrograms :
          zx = zx_load_rom(zx_new(m), p, RomLen(m)).z
    /\ frame = FrameIdle
    /\ ret = 0
    /\ obs = ObsNone
    /\ audio = AudioOff

NextFrame == RunFrameEnter \/ RunFrameIter \/ RunFrameReturn

SpecFrame == InitFrame /\ [][NextFrame]_vars /\ WF_vars(NextFrame)

NoUnmodelled == zx.unmodelled = 0

(***************************************************************************)
(* Frame timing and interrupt delivery                                     *)
(***************************************************************************)
InLoop == frame.pc = "loop"

IterStep == InLoop /\ obs'.op = "iter"

(* The opcode the next instruction fetch will read. *)
NextOpcode == mem_read(zx, zx.pc)

(* C1: run_frame starts the frame counter at 0, executes whole             *)
(* instructions while the counter is below tstates_per_frame (69888 on     *)
(* 48K, 70908 on 128K and +2) and returns at the first instruction         *)
(* boundary where it is >= tstates_per_frame; every iteration advances the *)
(* counter, which is bounded, so the call terminates.                      *)
C1_FrameBoundary ==
    /\ [](zx.tstates_per_frame =
             IF zx.machine_type = MACHINE_48K THEN 69888 ELSE 70908)
    /\ [](obs.op = "enter" => zx.tstates = 0)
    /\ [](obs.op = "return" =>
             /\ zx.tstates >= zx.tstates_per_frame
             /\ obs.tbefore < zx.tstates_per_frame)
    /\ [](InLoop => obs.tbefore < zx.tstates_per_frame)
    /\ [][IterStep => zx'.tstates > zx.tstates]_vars

(* A frame has returned with the counter past the frame length (the last   *)
(* instruction overshot), and another exactly on it.                       *)
C1_Witness ==
    obs.op = "return" /\ zx.tstates > zx.tstates_per_frame /\ obs.ints = 1

(* C2: in every run_frame call the interrupt is raised exactly once, at    *)
(* the first instruction boundary whose frame counter is >= 14336: an      *)
(* iteration raises it exactly when the counter was below 14336 before the *)
(* instruction and is at or above it after; the number raised so far is 0  *)
(* below that point and 1 from it on, and 1 on return; being raised always *)
(* ends the halted state.                                                  *)
C2_InterruptOnce ==
    /\ obs.op = "iter" =>
          (obs.raised <=> /\ obs.tbefore < 14336
                          /\ obs.tbefore + obs.tcost >= 14336)
    /\ obs.op \in {"iter", "return"} =>
          obs.ints = IF zx.tstates >= 14336 THEN 1 ELSE 0
    /\ obs.op = "return" => obs.ints = 1
    /\ obs.raised => zx.halted = 0

(* The interrupt was raised on a halted CPU with interrupts enabled and    *)
(* was serviced by RST 38h.                                                *)
C2_Witness ==
    /\ obs.op = "iter" /\ obs.raised /\ obs.ints = 1
    /\ obs.pre.halted = 1 /\ obs.pre.iff1 = 1 /\ zx.pc = 56

(***************************************************************************)
(* EI delay                                                                *)
(***************************************************************************)
(* The step about to be taken executes the instruction with this opcode. *)
Executes(op) == IterStep /\ zx.halted = 0 /\ NextOpcode = op

(* An enable is pending from an EI that was executed with IFF1 = 0. *)
EiPending == zx.ei_delay # 0 /\ zx.iff1 = 0 /\ zx.halted = 0

(* EI executed with IFF1 = 0 leaves IFF1 = 0 and the enable pending, also  *)
(* when it follows another EI.                                             *)
EiKeepsPending ==
    Executes(251) /\ zx.iff1 = 0 =>
        /\ obs'.pre.iff1 = 0 /\ obs'.pre.ei_delay = 1
        /\ zx'.iff1 = 0 /\ zx'.ei_delay = 1

(* An interrupt raised while the enable is pending is not accepted. *)
PendingInterruptIgnored ==
    IterStep /\ obs'.raised /\ obs'.pre.ei_delay # 0 /\ obs'.pre.iff1 = 0 =>
        /\ zx'.pc = obs'.pre.pc /\ zx'.sp = obs'.pre.sp
        /\ zx'.ram_banks = obs'.pre.ram
        /\ zx'.iff1 = 0 /\ zx'.ei_delay = obs'.pre.ei_delay

EnabledAfter == obs'.pre.iff1 = 1 /\ obs'.pre.iff2 = 1 /\ obs'.pre.ei_delay = 0

(* C3 as stated: with an enable pending from an EI executed with IFF1 = 0, *)
(* IFF1 = IFF2 = 1 once the first following non-EI instruction completes,  *)
(* whatever that instruction is.                                           *)
C3_AsStated ==
    [][/\ EiKeepsPending
       /\ PendingInterruptIgnored
       /\ (IterStep /\ EiPending /\ NextOpcode # 251 => EnabledAfter)]_vars

(* C3: EI executed with IFF1 = 0 leaves IFF1 = 0; a run of EI keeps the    *)
(* enable pending; an interrupt raised while it is pending is not          *)
(* accepted; when the first following non-EI instruction completes,        *)
(* IFF1 = IFF2 = 1, unless that instruction is DI, which cancels the       *)
(* pending enable and leaves IFF1 = IFF2 = 0.                              *)
C3_EiDelay ==
    [][/\ EiKeepsPending
       /\ PendingInterruptIgnored
       /\ (IterStep /\ EiPending /\ NextOpcode \notin {251, 243} => EnabledAfter)
       /\ (IterStep /\ EiPending /\ NextOpcode = 243 =>
              /\ obs'.pre.iff1 = 0 /\ obs'.pre.iff2 = 0
              /\ obs'.pre.ei_delay = 0)]_vars

(* The interrupt was raised at the boundary right after a second           *)
(* consecutive EI, with the enable pending, and was not accepted.          *)
C3_Witness ==
    /\ obs.op = "iter" /\ obs.raised
    /\ obs.pre.ei_delay = 1 /\ obs.pre.iff1 = 0
    /\ zx.last_opcode = 251 /\ zx.pc = obs.pre.pc /\ zx.pc = 3584
    /\ zx.ei_delay = 1

(***************************************************************************)
(* HALT                                                                    *)
(***************************************************************************)
(* C4: executing HALT enters the halted state with PC after the HALT; a    *)
(* halted step costs 4 T-states and leaves PC, SP and RAM unchanged and    *)
(* the CPU halted; raising the interrupt clears the halted state whatever  *)
(* IFF1 is, and with IFF1 = 0 leaves PC, SP and RAM unchanged; a step of a *)
(* CPU that is not halted fetches the opcode at PC.                        *)
C4_Halt ==
    [][/\ (Executes(118) =>
              /\ obs'.pre.halted = 1 /\ obs'.tcost = 4
              /\ obs'.pre.pc = U16(zx.pc + 1))
       /\ (IterStep /\ zx.halted = 1 =>
              /\ obs'.tcost = 4 /\ obs'.pre.halted = 1
              /\ obs'.pre.pc = zx.pc /\ obs'.pre.sp = zx.sp
              /\ obs'.pre.ram = zx.ram_banks)
       /\ (IterStep /\ obs'.raised => zx'.halted = 0)
       /\ (IterStep /\ obs'.raised /\ obs'.pre.iff1 = 0 =>
              /\ zx'.pc = obs'.pre.pc /\ zx'.sp = obs'.pre.sp
              /\ zx'.ram_banks = obs'.pre.ram)
       /\ (IterStep /\ zx.halted = 0 => zx'.last_opcode = NextOpcode)]_vars

(* The CPU left the halted state through an interrupt that was not         *)
(* serviced (IFF1 = 0) and then executed the instruction after the HALT.   *)
C4_Witness ==
    /\ obs.op = "iter" /\ ~obs.raised /\ obs.ints = 1
    /\ obs.tbefore = 14336 /\ zx.halted = 0 /\ zx.iff1 = 0
    /\ zx.pc = 3585 /\ zx.last_opcode = 0

(***************************************************************************)
(* Memory paging: a 128K-class program that writes to the ports, stepped   *)
(* by the host with zx_step and interrupted by zx_reset.                   *)
(***************************************************************************)
MaxPagingSteps == 17

MaxResets == 1

(* Values the program writes to the ports. *)
PageValues == {0, 16, 48, 7, 39}

(* High bytes of the port address in BC: 0x7FFD paging, 0xFFFD AY select,  *)
(* 0xBFFD AY data.                                                         *)
PortHighs == {127, 255, 191}

(* ROM: JP 0x8000 in every ROM bank. *)
JumpRom(m) ==
    IF m = MACHINE_48K THEN Image(0 :> 195 @@ 2 :> 128, 16384)
    ELSE Image(0 :> 195 @@ 2 :> 128 @@ 16384 :> 195 @@ 16386 :> 128, 32768)

(* LD BC,ph:FD; LD A,v1; OUT (C),A; LD A,v2; OUT (C),A; LD (C000),A;       *)
(* OUT (FD),A; JP 8000                                                     *)
PagingProgram(ph, v1, v2) ==
    <<1, 253, ph, 62, v1, 237, 121, 62, v2, 237, 121, 50, 0, 192,
      211, 253, 195, 0, 128>>

PagingObs == [op |-> "init", steps |-> 0, resets |-> 0]

InitPaging ==
    /\ \E m \in FrameMachines, ph \in PortHighs, v1 \in PageValues, v2 \in PageValues :
          zx = zx_load_memory(zx_load_rom(zx_new(m), JumpRom(m), RomLen(m)).z,
                              32768, PagingProgram(ph, v1, v2))
    /\ frame = FrameIdle
    /\ ret = 0
    /\ obs = PagingObs
    /\ audio = AudioOff

StepResult(r) ==
    /\ zx' = [r.z EXCEPT !.edges = <<>>]
    /\ ret' = r.t

PagingStep ==
    /\ obs.steps < MaxPagingSteps
    /\ StepResult(zx_step(zx))
    /\ obs' = [obs EXCEPT !.op = "step", !.steps = @ + 1]
    /\ UNCHANGED frame
    /\ UNCHANGED audio

PagingReset ==
    /\ obs.resets < MaxResets
    /\ zx' = zx_reset(zx)
    /\ ret' = zx'.tape.loaded
    /\ obs' = [obs EXCEPT !.op = "reset", !.resets = @ + 1]
    /\ UNCHANGED frame
    /\ UNCHANGED audio

NextPaging == PagingStep \/ PagingReset

SpecPaging == InitPaging /\ [][NextPaging]_vars

(* The port address decodes as the paging port (low byte 0xFD, A15 = 0). *)
IsPagingPort(port) == port % 256 = 253 /\ port < 32768

(* The instruction about to execute writes register A to the paging port. *)
PagingPortWrite ==
    /\ zx.halted = 0
    /\ \/ /\ NextOpcode = 237
          /\ mem_read(zx, U16(zx.pc + 1)) = 121
          /\ IsPagingPort(zx.b * 256 + zx.c)
       \/ /\ NextOpcode = 211
          /\ IsPagingPort(zx.a * 256 + mem_read(zx, U16(zx.pc + 1)))

(* The mapping a paging-port value selects. *)
MappingOf(v) == <<MapRom(Bit(v, 4)), MapRam(5), MapRam(2), MapRam(v % 8)>>

(* C5: on a 128K or +2 instance a paging-port write of a value with bit 5  *)
(* set stores the value, sets the lock and selects that value's mapping;   *)
(* while the lock is set, no CPU step, whatever it writes to the paging    *)
(* port, changes the stored value, the lock or the mapping; only reset     *)
(* does.                                                                   *)
C5_PagingLock ==
    /\ [](zx.paging_disabled = 1 =>
             /\ zx.machine_type # MACHINE_48K
             /\ Bit(zx.port_7ffd, 5) = 1
             /\ zx.mem_map = MappingOf(zx.port_7ffd))
    /\ [][/\ (/\ obs'.op = "step" /\ zx.machine_type # MACHINE_48K
               /\ zx.paging_disabled = 0 /\ PagingPortWrite
               /\ Bit(zx.a, 5) = 1
               => /\ zx'.port_7ffd = zx.a /\ zx'.paging_disabled = 1
                  /\ zx'.mem_map = MappingOf(zx.a))
           /\ (zx.paging_disabled = 1 /\ obs'.op # "reset"
               => /\ zx'.port_7ffd = zx.port_7ffd
                  /\ zx'.paging_disabled = 1
                  /\ zx'.mem_map = zx.mem_map)]_vars

(* Paging was locked by writing 0x30 and the program has since written     *)
(* 0x00 to the paging port.                                                *)
C5_Witness ==
    /\ obs.op = "step" /\ zx.paging_disabled = 1 /\ zx.port_7ffd = 48
    /\ zx.mem_map = MappingOf(48)
    /\ zx.last_opcode = 237 /\ zx.pc = 32768 + 11
    /\ zx.a = 0 /\ zx.b = 127 /\ zx.c = 253

(***************************************************************************)
(* Snapshots: the paging program stepped by the host, with save_z80 and    *)
(* load_z80 of hand-made and of previously saved snapshots in between.     *)
(***************************************************************************)
MaxSnapSteps == 6

MaxSnapLoads == 1

(* n copies of the sequence s. *)
Repeat(s, n) == [k \in 1 .. n * Len(s) |-> s[((k - 1) % Len(s)) + 1]]

(* A 30-byte header: stored PC field pc, byte 12 flags12. *)
SnapHdr(pc, flags12) ==
    <<17, 34, 3, 4, 5, 6, pc % 256, pc \div 256, 240, 255, 63, 133, flags12,
      7, 8, 9, 10, 11, 12, 13, 14, 15, 16, 52, 18, 120, 86, 1, 1, 2>>

(* A version 2 header with a 23-byte extension: PC 0x8000, hardware id hw, *)
(* paging byte p7ffd, AY register 3 selected.                              *)
SnapV2(hw, p7ffd) ==
    SnapHdr(0, 5) \o wr16le(23) \o wr16le(32768) \o <<hw, p7ffd, 0, 4, 3>>
    \o <<1, 2, 0, 0, 0, 0, 0, 56, 0, 0, 0, 0, 0, 0, 0, 0>>

(* RLE data of one 16 KB page: three bytes of val, zeros after. *)
RlePage(val) ==
    <<237, 237, 3, val>> \o Repeat(<<237, 237, 255, 0>>, 64) \o <<237, 237, 61, 0>>

SnapBlock(page, data) == wr16le(Len(data)) \o <<page>> \o data

(* s followed by zero bytes up to length n. *)
BsPad(s, n) == [len |-> n, at |-> BankOfSeq(s)]

SnapInputs ==
    { BsOfSeq(SubSeq(SnapHdr(0, 5), 1, 29)),
      BsOfSeq(SnapHdr(0, 5)),
      BsOfSeq(SnapHdr(0, 5) \o wr16le(23) \o <<0, 128, 0>>),
      BsOfSeq(SnapV2(0, 32) \o SnapBlock(8, RlePage(170))),
      BsPad(SnapV2(4, 19) \o <<255, 255, 3>>, 58 + RAM_BANK_SIZE),
      BsPad(SnapV2(0, 0) \o <<255, 255, 8>>, 58 + RAM_BANK_SIZE - 1),
      BsOfSeq(SnapV2(0, 0) \o wr16le(10) \o <<8, 1, 2, 3, 4>>),
      BsOfSeq(SnapV2(0, 0) \o SnapBlock(8, <<237, 237, 5, 170>>)),
      BsOfSeq(SnapV2(0, 0) \o SnapBlock(0, RlePage(0))),
      BsOfSeq(SnapV2(0, 0)),
      BsOfSeq(SnapV2(12, 7) \o SnapBlock(8, RlePage(170)) \o <<255, 255, 4, 9>>),
      BsOfSeq(SnapHdr(32768, 37) \o Repeat(<<237, 237, 255, 0>>, 192)
              \o <<237, 237, 192, 0>> \o <<0, 237, 237, 0>>),
      BsPad(SnapHdr(32768, 5), 30 + 3 * RAM_BANK_SIZE),
      BsPad(SnapHdr(32768, 5), 30 + 3 * RAM_BANK_SIZE - 1),
      BsOfSeq(SnapHdr(32768, 37) \o <<237, 237, 9, 1>>) }

SnapObs ==
    [op |-> "init", steps |-> 0, loads |-> 0, saved |-> FALSE,
     reloaded |-> FALSE, saved_at |-> 0, src |-> ZeroState,
     snap |-> BsOfSeq(<<>>), input |-> BsOfSeq(<<>>)]

InitSnap ==
    /\ \E m \in FrameMachines, ph \in PortHighs, v1 \in {48, 7} :
          zx = zx_load_memory(zx_load_rom(zx_new(m), JumpRom(m), RomLen(m)).z,
                              32768, PagingProgram(ph, v1, 16))
    /\ frame = FrameIdle
    /\ ret = 0
    /\ obs = SnapObs
    /\ audio = AudioOff

SnapStep ==
    /\ obs.steps < MaxSnapSteps
    /\ StepResult(zx_step(zx))
    /\ obs' = [obs EXCEPT !.op = "step", !.steps = @ + 1]
    /\ UNCHANGED frame
    /\ UNCHANGED audio

SaveResult(bytes) ==
    /\ ret' = bytes
    /\ obs' = [obs EXCEPT !.op = "save", !.saved = TRUE, !.saved_at = obs.steps,
                          !.src = zx, !.snap = bytes]

SnapSave ==
    /\ ~obs.saved
    /\ SaveResult(zx_save_z80(zx))
    /\ UNCHANGED <<zx, frame>>
    /\ UNCHANGED audio

LoadResult(r) ==
    /\ zx' = r.z
    /\ ret' = [ok |-> r.ok, err |-> r.err]

SnapLoad ==
    /\ obs.loads < MaxSnapLoads
    /\ \E input \in SnapInputs :
          /\ LoadResult(zx_load_z80(zx, input))
          /\ obs' = [obs EXCEPT !.op = "load", !.loads = @ + 1, !.input = input]
    /\ UNCHANGED frame
    /\ UNCHANGED audio

SnapReload ==
    /\ obs.saved /\ ~obs.reloaded
    /\ LoadResult(zx_load_z80(zx, obs.snap))
    /\ obs' = [obs EXCEPT !.op = "reload", !.reloaded = TRUE, !.input = obs.snap]
    /\ UNCHANGED frame
    /\ UNCHANGED audio

NextSnap == SnapStep \/ SnapSave \/ SnapLoad \/ SnapReload

SpecSnap == InitSnap /\ [][NextSnap]_vars

(* The instance state that the error-handling contract says a failed load  *)
(* leaves alone.                                                           *)
SnapState(z) ==
    [a |-> z.a, f |-> z.f, b |-> z.b, c |-> z.c, d |-> z.d, e |-> z.e,
     h |-> z.h, l |-> z.l, a_ |-> z.a_, f_ |-> z.f_, b_ |-> z.b_, c_ |-> z.c_,
     d_ |-> z.d_, e_ |-> z.e_, h_ |-> z.h_, l_ |-> z.l_,
     ix |-> z.ix, iy |-> z.iy, sp |-> z.sp, pc |-> z.pc, i |-> z.i, r |-> z.r,
     iff1 |-> z.iff1, iff2 |-> z.iff2, im |-> z.im,
     border_color |-> z.border_color, machine_type |-> z.machine_type,
     tstates_per_frame |-> z.tstates_per_frame,
     port_7ffd |-> z.port_7ffd, paging_disabled |-> z.paging_disabled,
     mem_map |-> z.mem_map, ay |-> z.ay,
     int_vector |-> z.int_vector, int_vector_fixed |-> z.int_vector_fixed,
     ram_banks |-> z.ram_banks]

(* C6: a load_snapshot call that fails leaves the instance state as it was: *)
(* registers, flip-flops, interrupt mode, border, machine type, frame       *)
(* length, paging port and lock, AY state, interrupt-vector setting, RAM.   *)
C6_FailedLoadUntouched ==
    [][obs'.op = "load" /\ ~ret'.ok => SnapState(zx') = SnapState(zx)]_vars

(* What a snapshot carries for every machine type. *)
SnapCpu(z) ==
    [a |-> z.a, f |-> z.f, b |-> z.b, c |-> z.c, d |-> z.d, e |-> z.e,
     h |-> z.h, l |-> z.l, a_ |-> z.a_, f_ |-> z.f_, b_ |-> z.b_, c_ |-> z.c_,
     d_ |-> z.d_, e_ |-> z.e_, h_ |-> z.h_, l_ |-> z.l_,
     ix |-> z.ix, iy |-> z.iy, sp |-> z.sp, pc |-> z.pc, i |-> z.i, r |-> z.r,
     iff1 |-> z.iff1, iff2 |-> z.iff2, im |-> z.im,
     border_color |-> z.border_color, machine_type |-> z.machine_type]

SnapPaging(z) == [port_7ffd |-> z.port_7ffd, paging_disabled |-> z.paging_disabled]

SnapAy(z) == [regs |-> z.ay.regs, selected_reg |-> z.ay.selected_reg]

(* The RAM banks save_snapshot writes for the machine type. *)
SavedBanks(z) == IF z.machine_type = MACHINE_48K THEN {5, 2, 0} ELSE 0 .. 7

SameSavedRam(z, s) == \A k \in SavedBanks(s) : z.ram_banks[k] = s.ram_banks[k]

(* C7 as stated: load_snapshot(save_snapshot(S)) succeeds and restores the *)
(* registers, flip-flops, IM, border, machine type, the paging port value  *)
(* and lock for every machine type, the AY registers on 128K-class and the *)
(* saved RAM banks, and re-saving gives the same bytes.                    *)
C7_AsStated ==
    obs.op = "reload" =>
        /\ ret.ok
        /\ SnapCpu(zx) = SnapCpu(obs.src)
        /\ SnapPaging(zx) = SnapPaging(obs.src)
        /\ (zx.machine_type # MACHINE_48K => SnapAy(zx) = SnapAy(obs.src))
        /\ SameSavedRam(zx, obs.src)
        /\ zx_save_z80(zx) = obs.snap

(* C7: load_snapshot(save_snapshot(S)) succeeds and restores the           *)
(* registers, flip-flops, IM, border, machine type and the saved RAM       *)
(* banks; on a 128K-class instance also the paging port value and lock and *)
(* the AY registers and selected register, while on a 48K instance the     *)
(* paging port value and lock come back as 0; re-saving the reloaded       *)
(* instance gives the same bytes.                                          *)
C7_RoundTrip ==
    obs.op = "reload" =>
        /\ ret.ok
        /\ SnapCpu(zx) = SnapCpu(obs.src)
        /\ IF zx.machine_type # MACHINE_48K
           THEN SnapPaging(zx) = SnapPaging(obs.src) /\ SnapAy(zx) = SnapAy(obs.src)
           ELSE zx.port_7ffd = 0 /\ zx.paging_disabled = 0
        /\ SameSavedRam(zx, obs.src)
        /\ zx_save_z80(zx) = obs.snap

(* A +2 instance with paging locked at 0x30 was saved, stepped further,    *)
(* and reloaded from its own snapshot.                                     *)
C7_Witness ==
    /\ obs.op = "reload" /\ ret.ok /\ obs.steps > obs.saved_at
    /\ zx.machine_type = MACHINE_PLUS2
    /\ zx.port_7ffd = 48 /\ zx.paging_disabled = 1
    /\ zx.pc = 32768 + 7 /\ zx.a = 48

(***************************************************************************)
(* Tape files: one load_tap or load_tzx call on an instance that has no    *)
(* tape, or has a two-block TAP file loaded and playing.                   *)
(***************************************************************************)
MaxChunks == 3

TzxKinds ==
    {"std", "turbo", "pure", "pause", "tone", "pulses", "level",
     "text", "archive", "group", "custom", "unknown", "cut_std", "cut_hdr"}

(* One TZX block of each kind.  The skipped kinds carry bytes that would   *)
(* parse as block IDs; "unknown" is ID 0x99; "cut_std" declares 5 data     *)
(* bytes and has 1; "cut_hdr" is a standard block cut inside its header;   *)
(* "turbo_p" is a turbo block of 3 bits followed by a 1 ms pause; "turbo0" *)
(* is a turbo block with no pilot pulses; "std0" is a standard block with  *)
(* no data; "pause0" is a pause block of 0 ms.                             *)
TzxChunk(k) ==
    CASE k = "std" -> <<16, 1, 0, 2, 0, 255, 85>>
      [] k = "turbo" -> <<17, 10, 0, 6, 0, 7, 0, 3, 0, 5, 0, 2, 0, 8, 0, 0, 1, 0, 0, 170>>
      [] k = "pure" -> <<20, 3, 0, 5, 0, 8, 0, 0, 1, 0, 0, 129>>
      [] k = "pause" -> <<32, 2, 0>>
      [] k = "tone" -> <<18, 10, 0, 3, 0>>
      [] k = "pulses" -> <<19, 2, 6, 0, 7, 0>>
      [] k = "level" -> <<43, 1, 0, 0, 0, 0>>
      [] k = "text" -> <<48, 3, 16, 153, 16>>
      [] k = "archive" -> <<50, 2, 0, 153, 17>>
      [] k = "group" -> <<33, 1, 153>>
      [] k = "custom" -> <<53>> \o [i \in 1 .. 16 |-> 65] \o <<1, 0, 0, 0, 153>>
      [] k = "unknown" -> <<153>>
      [] k = "cut_std" -> <<16, 0, 0, 5, 0, 1>>
      [] k = "cut_hdr" -> <<16, 0>>
      [] k = "turbo_p" -> <<17, 10, 0, 6, 0, 7, 0, 3, 0, 5, 0, 2, 0, 3, 1, 0, 1, 0, 0, 170>>
      [] k = "turbo0" -> <<17, 10, 0, 6, 0, 7, 0, 3, 0, 5, 0, 0, 0, 8, 0, 0, 1, 0, 0, 170>>
      [] k = "std0" -> <<16, 1, 0, 0, 0>>
      [] k = "pause0" -> <<32, 0, 0>>

TapKinds == {"blk", "empty", "cut", "half"}

TapChunk(k) ==
    CASE k = "blk" -> <<2, 0, 170, 187>>
      [] k = "empty" -> <<0, 0>>
      [] k = "cut" -> <<5, 0, 1>>
      [] k = "half" -> <<1>>

RECURSIVE Concat(_)
Concat(ss) == IF ss = <<>> THEN <<>> ELSE Head(ss) \o Concat(Tail(ss))

TzxFile(ks) == TzxMagic \o <<1, 20>> \o Concat([i \in 1 .. Len(ks) |-> TzxChunk(ks[i])])

TapFile(ks) == Concat([i \in 1 .. Len(ks) |-> TapChunk(ks[i])])

(* Files that fail the TZX header test. *)
BadTzxFiles == { <<>>, SubSeq(TzxMagic, 1, 7) \o <<0, 1, 20, 16>>, TzxMagic \o <<1>> }

KindSeqs(kinds) == UNION {[1 .. n -> kinds] : n \in 0 .. MaxChunks}

TapeObs == [op |-> "init", kinds |-> <<>>, pre |-> ZeroState, trunc |-> FALSE]

InitTapeLoad ==
    /\ zx \in { zx_new(MACHINE_48K),
                zx_tape_play(zx_load_tap(zx_new(MACHINE_128K),
                                         TapFile(<<"blk", "blk">>), FALSE).z, TRUE) }
    /\ frame = FrameIdle
    /\ ret = 0
    /\ obs = TapeObs
    /\ audio = AudioOff

TapeLoadResult(r, op, ks) ==
    /\ zx' = r.z
    /\ ret' = [ok |-> r.ok, err |-> r.err]
    /\ obs' = [op |-> op, kinds |-> ks, pre |-> zx, trunc |-> r.trunc]

LoadTap ==
    /\ obs.op = "init"
    /\ \E ks \in KindSeqs(TapKinds), malloc0_null \in BOOLEAN :
          TapeLoadResult(zx_load_tap(zx, TapFile(ks), malloc0_null), "load_tap", ks)
    /\ UNCHANGED frame
    /\ UNCHANGED audio

LoadTzx ==
    /\ obs.op = "init"
    /\ \E ks \in KindSeqs(TzxKinds) :
          TapeLoadResult(zx_load_tzx(zx, TzxFile(ks)), "load_tzx", ks)
    /\ UNCHANGED frame
    /\ UNCHANGED audio

LoadBadTzx ==
    /\ obs.op = "init"
    /\ \E f \in BadTzxFiles :
          TapeLoadResult(zx_load_tzx(zx, f), "load_bad_tzx", <<>>)
    /\ UNCHANGED frame
    /\ UNCHANGED audio

NextTapeLoad == LoadTap \/ LoadTzx \/ LoadBadTzx

SpecTapeLoad == InitTapeLoad /\ [][NextTapeLoad]_vars

(* C8: when a TAP or TZX file is truncated (a header cut short or a        *)
(* declared length past the end of the data), load_tape reports not-loaded *)
(* or an error, keeps no block of the file, and leaves the previously      *)
(* loaded blocks and the player state as they were.                        *)
C8_TruncatedRejected ==
    obs.op \in {"load_tap", "load_tzx"} /\ obs.trunc =>
        /\ ~ret.ok
        /\ zx.tape = obs.pre.tape
        /\ zx.tape_active = obs.pre.tape_active

(* Kinds that parse completely and are known to the loader. *)
CompleteKinds == TzxKinds \ {"unknown", "cut_std", "cut_hdr"}

(* Kinds with a length field that the loader skips without playing. *)
SkippedKinds == {"text", "archive", "group", "custom"}

(* Chunk k is met at a block boundary: every chunk before it is complete. *)
AtBoundary(ks, k) == \A j \in 1 .. (k - 1) : ks[j] \in CompleteKinds

Without(ks, k) == SubSeq(ks, 1, k - 1) \o SubSeq(ks, k + 1, Len(ks))

SameAsLoading(ks) ==
    /\ zx = zx_load_tzx(obs.pre, TzxFile(ks)).z
    /\ ret.ok = zx_load_tzx(obs.pre, TzxFile(ks)).ok
    /\ ret.err = zx_load_tzx(obs.pre, TzxFile(ks)).err

(* C9: a TZX stream with an unknown block ID at a block boundary fails     *)
(* with the unsupported-block error and leaves no block loaded, wherever   *)
(* the ID occurs; a skipped block (text, archive info, group start, custom *)
(* info) at a block boundary is skipped by exactly its length: the load    *)
(* gives what loading the stream without that block gives.                 *)
C9_TzxUnknownAndSkipped ==
    obs.op = "load_tzx" =>
        \A k \in 1 .. Len(obs.kinds) :
            /\ (obs.kinds[k] = "unknown" /\ AtBoundary(obs.kinds, k) =>
                   /\ ~ret.ok
                   /\ ret.err = <<"Unsupported TZX block id 0x%02X", 153>>
                   /\ zx.tape.blocks = <<>> /\ zx.tape.block_count = 0
                   /\ zx.tape.loaded = 0)
            /\ (obs.kinds[k] \in SkippedKinds /\ AtBoundary(obs.kinds, k) =>
                   SameAsLoading(Without(obs.kinds, k)))

(* An unknown ID after a loaded block and a skipped text block: the load   *)
(* failed and dropped the block it had read.                               *)
C9_Witness ==
    /\ obs.op = "load_tzx" /\ obs.kinds = <<"std", "text", "unknown">>
    /\ obs.pre.tape.block_count = 2
    /\ ~ret.ok /\ zx.tape.blocks = <<>> /\ zx.tape.loaded = 0

(***************************************************************************)
(* Tape playback: a tape is loaded, played while the CPU runs a small      *)
(* loop, and may be rewound and played again once it has stopped.          *)
(***************************************************************************)
(* A standard block plays 3223 pilot pulses of 2168 T-states before its    *)
(* data: the step bound lets one such block play to its end.               *)
MaxTapeSteps == 800200
MaxPlays == 2
MaxRewinds == 1
MaxIdleSteps == 2

(* NOP; LD BC,0; LD A,0; LD (C000),A; JP 8000: 4, 10, 7, 13, 10 T-states. *)
TapeProgram == <<0, 1, 0, 0, 62, 0, 50, 0, 192, 195, 0, 128>>

TzxTapes ==
    { <<"turbo">>, <<"turbo_p">>, <<"turbo0">>, <<"turbo", "turbo_p">>,
      <<"turbo_p", "turbo0">>, <<"tone", "pulses", "pure">>,
      <<"level", "turbo">>, <<"std">>, <<"std0", "turbo">>, <<"pure", "turbo">>,
      <<"pause", "turbo">>, <<"turbo", "pause0", "turbo">>, <<"pause0", "turbo">> }

TapTapes == { <<"blk">>, <<"empty", "blk">> }

TapeMachine ==
    zx_load_memory(zx_load_rom(zx_new(MACHINE_48K), JumpRom(MACHINE_48K),
                               RomLen(MACHINE_48K)).z,
                   32768, TapeProgram)

(* trail: the phases the current block has been in, in order; done: the    *)
(* blocks that have ended, each with its trail.                            *)
NoTrack == [trail |-> <<>>, done |-> <<>>]

TrackEdge(tr, e) ==
    IF e.from.phase = TAPE_PHASE_PAUSE
    THEN [trail |-> IF e.to.phase = TAPE_PHASE_STOP THEN <<>> ELSE <<e.to.phase>>,
          done |-> Append(tr.done, [blk |-> e.from.blocks[e.from.block_idx + 1],
                                    trail |-> tr.trail])]
    ELSE IF e.to.phase # e.from.phase
    THEN [tr EXCEPT !.trail = Append(@, e.to.phase)]
    ELSE tr

RECURSIVE Track(_, _)
Track(tr, es) == IF es = <<>> THEN tr ELSE Track(TrackEdge(tr, Head(es)), Tail(es))

(* last_at: the tape time of the last edge before this operation, or of    *)
(* the start of playback; pre: the player before the operation.            *)
(* idle: CPU steps taken since playback last stopped.                      *)
TapeObsInit ==
    [op |-> "init", steps |-> 0, plays |-> 0, rewinds |-> 0, edges |-> <<>>,
     last_at |-> 0, pre |-> TapeInit, track |-> NoTrack, idle |-> 0]

InitTape ==
    /\ \/ \E ks \in TzxTapes : zx = zx_load_tzx(TapeMachine, TzxFile(ks)).z
       \/ \E ks \in TapTapes : zx = zx_load_tap(TapeMachine, TapFile(ks), FALSE).z
    /\ frame = FrameIdle
    /\ ret = 0
    /\ obs = TapeObsInit
    /\ audio = AudioOff

LastAt == IF obs.edges # <<>> THEN obs.edges[Len(obs.edges)].at ELSE obs.last_at

TapeStepResult(r) ==
    /\ zx' = [r.z EXCEPT !.edges = <<>>]
    /\ ret' = r.t
    /\ obs' = [obs EXCEPT !.op = "step", !.steps = @ + 1, !.edges = r.z.edges,
                          !.last_at = LastAt, !.pre = zx.tape,
                          !.track = Track(@, r.z.edges),
                          !.idle = IF zx.tape.playing = 0 THEN @ + 1 ELSE 0]

TapeStep ==
    /\ IF zx.tape.playing # 0 THEN TRUE
       ELSE obs.plays >= 1 /\ obs.idle < MaxIdleSteps
    /\ obs.steps < MaxTapeSteps
    /\ TapeStepResult(zx_step(zx))
    /\ UNCHANGED frame
    /\ UNCHANGED audio

TapePlayResult(z) ==
    /\ zx' = z
    /\ obs' = [obs EXCEPT !.op = "play", !.plays = @ + 1, !.edges = <<>>,
                          !.idle = 0,
                          !.last_at = z.tape_played, !.pre = zx.tape,
                          !.track = [trail |-> IF z.tape.phase = TAPE_PHASE_STOP
                                               THEN <<>> ELSE <<z.tape.phase>>,
                                     done |-> <<>>]]

TapePlay ==
    /\ zx.tape.playing = 0
    /\ obs.plays < MaxPlays
    /\ TapePlayResult(zx_tape_play(zx, TRUE))
    /\ UNCHANGED <<frame, ret>>
    /\ UNCHANGED audio

TapeRewind ==
    /\ zx.tape.playing = 0
    /\ obs.plays >= 1
    /\ obs.rewinds < MaxRewinds
    /\ zx' = zx_tape_rewind(zx)
    /\ obs' = [obs EXCEPT !.op = "rewind", !.rewinds = @ + 1, !.edges = <<>>,
                          !.last_at = LastAt, !.pre = zx.tape, !.track = NoTrack]
    /\ UNCHANGED <<frame, ret>>
    /\ UNCHANGED audio

NextTape == TapeStep \/ TapePlay \/ TapeRewind

SpecTape == InitTape /\ [][NextTape]_vars

PulsePhases == {TAPE_PHASE_PILOT, TAPE_PHASE_SYNC1, TAPE_PHASE_SYNC2, TAPE_PHASE_DATA}

FivePhases ==
    <<TAPE_PHASE_PILOT, TAPE_PHASE_SYNC1, TAPE_PHASE_SYNC2, TAPE_PHASE_DATA,
      TAPE_PHASE_PAUSE>>

(* The block under the cursor of player t. *)
Blk(t) == t.blocks[t.block_idx + 1]

BitUnderCursor(t) == (Blk(t).data[t.byte_idx + 1] \div Pow2(7 - t.bit_idx)) % 2

(* The pulse width the block specifies for the pulse player t is in. *)
SpecifiedWidth(t) ==
    CASE t.phase = TAPE_PHASE_PILOT ->
           IF Blk(t).pilot_len # 0 THEN Blk(t).pilot_len ELSE 2168
      [] t.phase = TAPE_PHASE_SYNC1 ->
           IF Blk(t).sync1_len # 0 THEN Blk(t).sync1_len ELSE 667
      [] t.phase = TAPE_PHASE_SYNC2 ->
           IF Blk(t).sync2_len # 0 THEN Blk(t).sync2_len ELSE 735
      [] t.phase = TAPE_PHASE_DATA ->
           IF BitUnderCursor(t) = 1
           THEN (IF Blk(t).bit1_len # 0 THEN Blk(t).bit1_len ELSE 1710)
           ELSE (IF Blk(t).bit0_len # 0 THEN Blk(t).bit0_len ELSE 855)

PrevAt(i) == IF i = 1 THEN obs.last_at ELSE obs.edges[i - 1].at

LevelBefore(i) == IF i = 1 THEN obs.pre.ear_level ELSE obs.edges[i - 1].to.ear_level

(* The pulse edges of the last step that ended a pulse of a block with     *)
(* pilot and sync.                                                         *)
PulseEdges ==
    { i \in 1 .. Len(obs.edges) :
        /\ obs.edges[i].from.phase \in PulsePhases
        /\ Blk(obs.edges[i].from).has_pilot_sync # 0 }

(* The level changes only at edges, and every pulse lasts its width. *)
LevelHeld ==
    obs.op = "step" =>
        /\ \A i \in 1 .. Len(obs.edges) : obs.edges[i].from.ear_level = LevelBefore(i)
        /\ zx.tape.ear_level = LevelBefore(Len(obs.edges) + 1)
        /\ \A i \in PulseEdges :
               obs.edges[i].at - PrevAt(i) = SpecifiedWidth(obs.edges[i].from)

(* The claim as worded: every block with pilot and sync goes through all   *)
(* five phases, and the level flips at every pulse boundary.               *)
C10_AsStated ==
    /\ \A k \in 1 .. Len(obs.track.done) :
           obs.track.done[k].blk.has_pilot_sync # 0 =>
               obs.track.done[k].trail = FivePhases
    /\ \A i \in PulseEdges :
           obs.edges[i].to.ear_level = 1 - obs.edges[i].from.ear_level
    /\ LevelHeld

PilotCount(b) ==
    IF b.is_turbo # 0 THEN b.pilot_pulses
    ELSE IF b.data[1] < 128 THEN 8063 ELSE 3223

(* The pause after the block forces the level low. *)
PauseLow(b) == b.pause_defined = 0 \/ b.pause_ms > 0

(* C10: every loaded block that has pilot and sync and at least one data   *)
(* byte is played through PILOT, SYNC1, SYNC2, DATA, PAUSE in that order   *)
(* and then the next block starts, PILOT being left out when the block     *)
(* specifies no pilot pulse; the EAR level is constant for the width of    *)
(* each pulse and flips once at each pulse boundary, except that the end   *)
(* of the last data pulse leaves the level low when the pause that follows *)
(* is not empty.                                                           *)
C10_TapePhases ==
    /\ \A k \in 1 .. Len(obs.track.done) :
           obs.track.done[k].blk.has_pilot_sync # 0 /\ obs.track.done[k].blk.len > 0 =>
               obs.track.done[k].trail =
                   IF PilotCount(obs.track.done[k].blk) > 0 THEN FivePhases
                   ELSE Tail(FivePhases)
    /\ \A i \in PulseEdges :
           obs.edges[i].to.ear_level =
               IF obs.edges[i].to.phase = TAPE_PHASE_PAUSE /\ PauseLow(Blk(obs.edges[i].from))
               THEN 0 ELSE 1 - obs.edges[i].from.ear_level
    /\ LevelHeld

(* A block went through the five phases and its last data pulse, played    *)
(* low, ended into the pause without a flip.                               *)
C10_Witness ==
    /\ obs.op = "step"
    /\ obs.track.trail = FivePhases
    /\ \E i \in PulseEdges :
          /\ obs.edges[i].from.phase = TAPE_PHASE_DATA
          /\ obs.edges[i].to.phase = TAPE_PHASE_PAUSE
          /\ obs.edges[i].from.ear_level = 0 /\ obs.edges[i].to.ear_level = 0

(* The cursor of player t is on an empty block whose pause is 0. *)
AtStopBlock(t) ==
    t.block_idx < t.block_count /\ Blk(t).len = 0 /\ Blk(t).pause_ms = 0

(* The edges of the last step that ended the pause of an empty block. *)
EmptyPauseEdges ==
    { i \in 1 .. Len(obs.edges) :
        /\ obs.edges[i].from.phase = TAPE_PHASE_PAUSE
        /\ Blk(obs.edges[i].from).len = 0 }

(* C12: when playback reaches an empty block with pause 0 it stops there   *)
(* (not playing, tape not active, phase STOP, EAR high) and further ticks  *)
(* start no later block; an empty block with pause p > 0 holds EAR low for *)
(* p * 3500 T-states and then the next block is started.                   *)
C12_PauseBlocks ==
    /\ obs.op \in {"step", "play"} /\ AtStopBlock(zx.tape) =>
           /\ zx.tape.playing = 0 /\ zx.tape_active = 0
           /\ zx.tape.phase = TAPE_PHASE_STOP /\ zx.tape.ear_level = 1
    /\ obs.op = "step" /\ AtStopBlock(obs.pre) =>
           obs.edges = <<>> /\ zx.tape = obs.pre
    /\ obs.op \in {"step", "play"} /\ zx.tape.phase = TAPE_PHASE_PAUSE
         /\ Blk(zx.tape).len = 0 => zx.tape.ear_level = 0
    /\ \A i \in EmptyPauseEdges :
           /\ Blk(obs.edges[i].from).pause_ms > 0
           /\ obs.edges[i].from.ear_level = 0
           /\ obs.edges[i].at - PrevAt(i) = Blk(obs.edges[i].from).pause_ms * 3500
           /\ obs.edges[i].to.block_idx = obs.edges[i].from.block_idx + 1
           /\ (obs.edges[i].to.block_idx < obs.edges[i].to.block_count
                 /\ Blk(obs.edges[i].to).len > 0 =>
                     obs.edges[i].to.playing = 1
                     /\ obs.edges[i].to.phase \in PulsePhases)

(* Playback stopped at the 0 ms pause block after the first block, and two *)
(* more instructions ran without the third block starting.                 *)
C12_Witness ==
    /\ obs.op = "step" /\ obs.idle = 2
    /\ zx.tape.block_count = 3 /\ zx.tape.block_idx = 1 /\ AtStopBlock(zx.tape)
    /\ zx.tape.playing = 0 /\ zx.tape.ear_level = 1

(***************************************************************************)
(* A two-block TAP file played to its end: a 19-byte header block (flag    *)
(* 0x00) and a 2-byte data block (flag 0xFF), while the CPU runs a loop of *)
(* EX (SP),IX (23 T-states each).                                          *)
(***************************************************************************)
HeaderBlock == <<0, 0, 76, 73, 76, 85, 83, 72, 32, 32, 32, 32, 1, 0, 0, 128, 0, 0, 165>>

DataBlock == <<255, 90>>

TwoBlockTap == <<19, 0>> \o HeaderBlock \o <<2, 0>> \o DataBlock

(* EX (SP),IX twelve times; JP 8000 *)
SlowProgram == [k \in 1 .. 24 |-> IF k % 2 = 1 THEN 221 ELSE 227] \o <<195, 0, 128>>

(* n: pulses of the current block that have ended (its pause included). *)
TapObsInit == [op |-> "init", edges |-> <<>>, last_at |-> 0, pre_n |-> 0, n |-> 0]

InitTap ==
    /\ zx = zx_load_tap(zx_load_memory(zx_load_rom(zx_new(MACHINE_48K),
                                                   JumpRom(MACHINE_48K),
                                                   RomLen(MACHINE_48K)).z,
                                       32768, SlowProgram),
                        TwoBlockTap, FALSE).z
    /\ frame = FrameIdle
    /\ ret = 0
    /\ obs = TapObsInit
    /\ audio = AudioOff

RECURSIVE CountPulses(_, _)
CountPulses(n, es) ==
    IF es = <<>> THEN n
    ELSE CountPulses(IF Head(es).from.phase = TAPE_PHASE_PAUSE THEN 0 ELSE n + 1,
                     Tail(es))

TapStepResult(r) ==
    /\ zx' = [r.z EXCEPT !.edges = <<>>]
    /\ ret' = r.t
    /\ obs' = [op |-> "step", edges |-> r.z.edges, last_at |-> LastAt,
               pre_n |-> obs.n, n |-> CountPulses(obs.n, r.z.edges)]

TapStep ==
    /\ zx.tape.playing # 0
    /\ TapStepResult(zx_step(zx))
    /\ UNCHANGED frame
    /\ UNCHANGED audio

TapPlay ==
    /\ obs.op = "init"
    /\ zx' = zx_tape_play(zx, TRUE)
    /\ obs' = [TapObsInit EXCEPT !.op = "play", !.last_at = zx.tape_played]
    /\ UNCHANGED <<frame, ret>>
    /\ UNCHANGED audio

NextTap == TapStep \/ TapPlay

SpecTap == InitTap /\ [][NextTap]_vars

TapBlocks == <<HeaderBlock, DataBlock>>

ExpectedPilot(b) == IF TapBlocks[b + 1][1] = 0 THEN 8063 ELSE 3223

ExpectedGap(b) == IF b + 1 < Len(TapBlocks) THEN 200000 ELSE 3500000

(* Bit j (from 0, most significant bit of the first byte first) of block b. *)
ExpectedBit(b, j) == (TapBlocks[b + 1][(j \div 8) + 1] \div Pow2(7 - (j % 8))) % 2

(* The k-th pulse (from 1) of block b of the file: its phase and width. *)
ExpectedPulse(b, k) ==
    IF k <= ExpectedPilot(b) THEN [phase |-> TAPE_PHASE_PILOT, width |-> 2168]
    ELSE IF k = ExpectedPilot(b) + 1 THEN [phase |-> TAPE_PHASE_SYNC1, width |-> 667]
    ELSE IF k = ExpectedPilot(b) + 2 THEN [phase |-> TAPE_PHASE_SYNC2, width |-> 735]
    ELSE IF k <= ExpectedPilot(b) + 2 + 16 * Len(TapBlocks[b + 1])
    THEN [phase |-> TAPE_PHASE_DATA,
          width |-> IF ExpectedBit(b, (k - ExpectedPilot(b) - 3) \div 2) = 1
                    THEN 1710 ELSE 855]
    ELSE [phase |-> TAPE_PHASE_PAUSE, width |-> ExpectedGap(b)]

(* The pulse that edge i of the last step ended, and its index in its block. *)
PulseAt(i) ==
    [phase |-> obs.edges[i].from.phase, width |-> obs.edges[i].at - PrevAt(i)]

PulseIndex(i) == CountPulses(obs.pre_n, SubSeq(obs.edges, 1, i - 1)) + 1

(* C11: played from tape_play(true), the two-block TAP gives, in order,    *)
(* 8063 pilot pulses of 2168 T-states, a 667 and a 735 T-state sync pulse, *)
(* two pulses per bit (855 each for 0, 1710 each for 1) for the 152 header *)
(* bits, a gap of 200000 T-states, then 3223 pilot pulses, the two sync    *)
(* pulses and the pulses of the 16 data bits, then a gap of 3500000        *)
(* T-states, and only then playback stops.                                 *)
C11_TapSignal ==
    /\ obs.op = "play" =>
           /\ zx.tape.playing = 1 /\ zx.tape.block_idx = 0
           /\ zx.tape.phase = TAPE_PHASE_PILOT /\ zx.tape.pilot_rem = 8063
    /\ obs.op = "step" =>
           /\ \A i \in 1 .. Len(obs.edges) :
                  /\ obs.edges[i].from.block_idx < Len(TapBlocks)
                  /\ PulseAt(i) = ExpectedPulse(obs.edges[i].from.block_idx, PulseIndex(i))
           /\ zx.tape.playing = 0 =>
                  /\ obs.edges # <<>>
                  /\ obs.edges[Len(obs.edges)].from.phase = TAPE_PHASE_PAUSE
                  /\ obs.edges[Len(obs.edges)].from.block_idx = Len(TapBlocks) - 1
                  /\ zx.tape.phase = TAPE_PHASE_STOP /\ zx.tape_active = 0

(* The header block has been played and the data block's pilot follows the *)
(* inter-block gap.                                                        *)
C11_Witness ==
    /\ obs.op = "step" /\ zx.tape.playing = 1
    /\ zx.tape.block_idx = 1 /\ zx.tape.phase = TAPE_PHASE_PILOT
    /\ obs.n = 1 /\ obs.edges # <<>>
    /\ obs.edges[1].at = 8063 * 2168 + 667 + 735 + 200000 + 2168
                        + 2 * 855 * 123 + 2 * 1710 * 29

(***************************************************************************)
(* Interrupt mode 2: a program sets I and IM 2, enables interrupts and     *)
(* halts; the host fixes the vector byte (or leaves the floating bus to    *)
(* supply it); the frame interrupt is then accepted inside zx_run_frame.   *)
(* Marker bytes lie at the table entries and at the start of the next page.*)
(***************************************************************************)
Im2Pages == {61, 63, 128, 255}

Im2Vectors == {0, 127, 254, 255}

(* LD A,i ; LD I,A ; IM 2 ; EI ; HALT *)
Im2Program(i) ==
    0 :> 62 @@ 1 :> i @@ 2 :> 237 @@ 3 :> 71 @@ 4 :> 237 @@ 5 :> 94 @@
    6 :> 251 @@ 7 :> 118

Mark(a) == 1 + (((a \div 256) + (a % 256)) % 255)

MarkOffsets == <<0, 1, 127, 128, 254, 255, 256>>

MarkAddr(i, k) == U16(i * 256 + MarkOffsets[k])

Im2Rom(i) ==
    Image(Im2Program(i) @@
          [a \in {MarkAddr(i, k) : k \in DOMAIN MarkOffsets} \cap (8 .. 16383)
             |-> Mark(a)], 16384)

RECURSIVE PokeMarks(_, _, _)
PokeMarks(z, i, k) ==
    IF k > Len(MarkOffsets) THEN z
    ELSE PokeMarks(zx_poke(z, MarkAddr(i, k), Mark(MarkAddr(i, k))), i, k + 1)

Im2Machine(i, v, fixed) ==
    LET z == PokeMarks(zx_load_rom(zx_new(MACHINE_48K), Im2Rom(i), 16384).z, i, 1)
    IN IF fixed THEN zx_set_int_vector(z, v) ELSE z

InitIm2 ==
    /\ \E i \in Im2Pages, v \in Im2Vectors, fixed \in BOOLEAN :
          /\ (~fixed) => v = 255
          /\ zx = Im2Machine(i, v, fixed)
    /\ frame = FrameIdle
    /\ ret = 0
    /\ obs = ObsNone
    /\ audio = AudioOff

SpecIm2 == InitIm2 /\ [][NextFrame]_vars /\ WF_vars(NextFrame)

(* The vector byte the accepted interrupt used: the fixed one, or the byte *)
(* the floating bus delivered (kept in floating_bus_last).                 *)
VectorByte == IF zx.int_vector_fixed # 0 THEN zx.int_vector ELSE zx.floating_bus_last

Im2Accepted ==
    obs.op = "iter" /\ obs.raised /\ obs.pre.iff1 = 1 /\ zx.im = 2

(* C13: when an interrupt is accepted in mode 2 with vector byte v, the    *)
(* low byte of the new PC is read from (I<<8)|v and the high byte from     *)
(* (I<<8)|((v+1) mod 256), for every I and v: the pointer's increment      *)
(* wraps inside page I and never carries into page I+1.                    *)
C13_Im2VectorWraps ==
    Im2Accepted =>
        zx.pc = mem_read(zx, zx.i * 256 + VectorByte)
                + 256 * mem_read(zx, zx.i * 256 + ((VectorByte + 1) % 256))

(* I = 0x3D, v = 0xFF: the high byte comes from 0x3D00, whose marker       *)
(* differs from the one at 0x3E00.                                         *)
C13_Witness ==
    /\ Im2Accepted
    /\ zx.i = 61 /\ zx.int_vector_fixed = 1 /\ zx.int_vector = 255
    /\ zx.pc = Mark(15871) + 256 * Mark(15616)
    /\ mem_read(zx, 15616) = Mark(15616)
    /\ mem_read(zx, 15872) = Mark(15872)
    /\ Mark(15616) # Mark(15872)

(***************************************************************************)
(* Write protection: a program that stores and pushes into region 0 and    *)
(* switches the ROM bank, stepped by the host, with zx_poke,               *)
(* zx_load_memory and zx_reset in between.                                 *)
(***************************************************************************)
MaxRomSteps == 10

MaxRomWrites == 1

(* LD SP,0100; LD A,5A; LD (0005),A; PUSH AF; LD BC,7FFD; LD A,v;          *)
(* OUT (C),A; LD (3FFF),A; RST 38                                          *)
RomProgram(v) ==
    <<49, 0, 1, 62, 90, 50, 5, 0, 245, 1, 253, 127, 62, v, 237, 121,
      50, 255, 63, 255>>

RomPageValues == {16, 23}

PokeAddrs == {0, 16383, 16384, 49152}

PokeValues == {0, 77}

LoadAddrs == {0, 16382}

LoadData == <<1, 2, 3, 4>>

(* wrote: the operation attempted a write into a non-writable region;      *)
(* whole: every byte it attempted to write fell into one.                  *)
RomObs == [op |-> "init", steps |-> 0, writes |-> 0, resets |-> 0,
           wrote |-> FALSE, whole |-> FALSE]

InitRom ==
    /\ \E m \in FrameMachines, v \in RomPageValues :
          zx = zx_load_memory(zx_load_rom(zx_new(m), JumpRom(m), RomLen(m)).z,
                              32768, RomProgram(v))
    /\ frame = FrameIdle
    /\ ret = 0
    /\ obs = RomObs
    /\ audio = AudioOff

Writable(z, addr) == z.mem_writable[Shr(addr, 14) + 1] # 0

(* The instruction about to execute stores only into non-writable regions. *)
StoreDropped(z) ==
    /\ z.halted = 0
    /\ \/ /\ mem_read(z, z.pc) = 50
          /\ ~Writable(z, mem_read16(z, U16(z.pc + 1)))
       \/ /\ mem_read(z, z.pc) \in {245, 255}
          /\ ~Writable(z, U16(z.sp - 1)) /\ ~Writable(z, U16(z.sp - 2))

RomStep ==
    /\ obs.steps < MaxRomSteps
    /\ StepResult(zx_step(zx))
    /\ obs' = [obs EXCEPT !.op = "step", !.steps = @ + 1,
                          !.wrote = StoreDropped(zx), !.whole = StoreDropped(zx)]
    /\ UNCHANGED frame
    /\ UNCHANGED audio

RomPoke ==
    /\ obs.writes < MaxRomWrites
    /\ \E addr \in PokeAddrs, value \in PokeValues :
          /\ zx' = zx_poke(zx, addr, value)
          /\ obs' = [obs EXCEPT !.op = "poke", !.writes = @ + 1,
                                !.wrote = ~Writable(zx, addr),
                                !.whole = ~Writable(zx, addr)]
    /\ ret' = 1
    /\ UNCHANGED frame
    /\ UNCHANGED audio

RomLoadMemory ==
    /\ obs.writes < MaxRomWrites
    /\ \E addr \in LoadAddrs :
          /\ zx' = zx_load_memory(zx, addr, LoadData)
          /\ obs' = [obs EXCEPT
                       !.op = "load_memory", !.writes = @ + 1,
                       !.wrote = \E k \in 0 .. 3 : ~Writable(zx, addr + k),
                       !.whole = \A k \in 0 .. 3 : ~Writable(zx, addr + k)]
    /\ ret' = 1
    /\ UNCHANGED frame
    /\ UNCHANGED audio

RomReset ==
    /\ obs.resets < MaxResets
    /\ zx' = zx_reset(zx)
    /\ ret' = zx'.tape.loaded
    /\ obs' = [obs EXCEPT !.op = "reset", !.resets = @ + 1,
                          !.wrote = FALSE, !.whole = FALSE]
    /\ UNCHANGED frame
    /\ UNCHANGED audio

NextRom == RomStep \/ RomPoke \/ RomLoadMemory \/ RomReset

SpecRom == InitRom /\ [][NextRom]_vars

(* Bytes of every non-writable region, as the CPU reads them. *)
ProtectedBytes(z) ==
    [r \in {k \in 0 .. 3 : z.mem_writable[k + 1] = 0} |->
        IF z.mem_map[r + 1].rom THEN z.rom_banks[z.mem_map[r + 1].bank]
        ELSE z.ram_banks[z.mem_map[r + 1].bank]]

(* What a CPU instruction changes besides its stores: program counter,     *)
(* stack pointer, refresh register, opcode trace and the audio clock.      *)
InstructionFields ==
    {"pc", "sp", "r", "last_opcode", "audio_phase_accum", "audio_sample_idx", "ay",
     "audio_fed", "tape_fed"}

(* C14: in every reachable state of every machine type region 0 is mapped  *)
(* to ROM and is not writable; a write to a non-writable region (CPU       *)
(* store, push, zx_poke or zx_load_memory) changes no memory byte and no   *)
(* other state and reports no error.                                       *)
C14_RomProtected ==
    /\ [](zx.mem_map[1].rom /\ zx.mem_writable[1] = 0)
    /\ [][/\ obs'.wrote =>
               /\ zx'.rom_banks = zx.rom_banks
               /\ ProtectedBytes(zx') = ProtectedBytes(zx)
               /\ zx'.unmodelled = 0
          /\ obs'.whole /\ obs'.op \in {"poke", "load_memory"} =>
               zx' = zx /\ ret' = 1
          /\ obs'.whole /\ obs'.op = "step" =>
               \A f \in (DOMAIN zx) \ InstructionFields : zx'[f] = zx[f]]_vars

(* Every kind of dropped write has happened: a push into ROM 1 of a 128K   *)
(* machine after a poke of a nonzero byte at address 0 was dropped.        *)
C14_Witness ==
    /\ obs.op = "step" /\ obs.whole /\ obs.writes = 1
    /\ zx.machine_type = MACHINE_128K /\ zx.mem_map[1] = MapRom(1)
    /\ zx.last_opcode = 255 /\ zx.sp = 252
    /\ mem_read(zx, 0) = 195 /\ mem_read(zx, 253) = 0

(***************************************************************************)
(* Snapshot format selection, observed on the loads of SpecSnap.           *)
(***************************************************************************)
V1Errors ==
    {"Invalid Z80 v1 snapshot: decompression failed",
     "Invalid Z80 v1 snapshot: truncated RAM image"}

V23Errors ==
    {"Invalid Z80 snapshot: missing extended header",
     "Invalid Z80 snapshot: truncated extended header",
     "Invalid Z80 snapshot: no memory blocks",
     "Invalid Z80 snapshot: truncated uncompressed block",
     "Invalid Z80 snapshot: truncated compressed block",
     "Invalid Z80 snapshot: block decompression failed"}

(* A load that got as far as choosing the format. *)
FormatChosen == obs.op \in {"load", "reload"} /\ obs.input.len >= 30

PcField == BsRd16(obs.input, 6)

(* The input was read as the legacy format: a 48K machine whose PC is the  *)
(* header's PC field and whose RAM is the flat image after the 30-byte     *)
(* header, or one of the legacy format's errors.                           *)
ReadAsLegacy ==
    IF ret.ok
    THEN /\ zx.machine_type = MACHINE_48K /\ zx.pc = PcField
         /\ Bit(BsGet(obs.input, 12), 5) = 0 =>
               /\ zx.ram_banks[5] = BsBank(obs.input, 30, RAM_BANK_SIZE)
               /\ zx.ram_banks[2] = BsBank(obs.input, 30 + RAM_BANK_SIZE, RAM_BANK_SIZE)
               /\ zx.ram_banks[0] = BsBank(obs.input, 30 + 2 * RAM_BANK_SIZE, RAM_BANK_SIZE)
    ELSE ret.err \in V1Errors

(* The input was read as the versioned format: PC comes from the extended  *)
(* header and at least one [length][page-id] block was applied, or one of  *)
(* the versioned format's errors.                                          *)
ReadAsVersioned ==
    IF ret.ok
    THEN /\ obs.input.len >= 32 + BsRd16(obs.input, 30) + 3
         /\ zx.pc = BsRd16(obs.input, 32)
    ELSE ret.err \in V23Errors

(* C15 as stated: PC field 0 selects the legacy format and a nonzero PC    *)
(* field the versioned format.                                             *)
C15_AsStated ==
    FormatChosen => IF PcField = 0 THEN ReadAsLegacy ELSE ReadAsVersioned

(* C15: load_snapshot chooses the format from the 16-bit PC field at       *)
(* header offset 6: a nonzero value selects the legacy format (flat,       *)
(* optionally RLE-compressed 48K RAM image directly after the 30-byte      *)
(* header) and the value 0 selects the versioned format (extended header   *)
(* followed by [length][page-id] memory blocks).                           *)
C15_FormatByPcField ==
    FormatChosen => IF PcField # 0 THEN ReadAsLegacy ELSE ReadAsVersioned

(* A flat uncompressed image with PC field 0x8000 was loaded on a 128K     *)
(* machine, which became a 48K machine at PC 0x8000.                       *)
C15_Witness ==
    /\ obs.op = "load" /\ ret.ok /\ PcField = 32768
    /\ obs.input.len = 30 + 3 * RAM_BANK_SIZE
    /\ zx.pc = 32768 /\ zx.machine_type = MACHINE_48K
    /\ ReadAsLegacy /\ ~ReadAsVersioned

(***************************************************************************)
(* EI, DI and interrupt acceptance: programs that disable interrupts right *)
(* after enabling them, or enable them again in the instruction during     *)
(* which the frame interrupt becomes due, run for one frame.               *)
(***************************************************************************)
EiPrograms ==
    { <<251, 243>>,
      <<251, 251, 243, 0, 237, 69>>,
      Image(0 :> 251 @@ 3583 :> 243, 3584),
      Image(0 :> 251 @@ 3583 :> 251, 3584),
      Image(0 :> 251 @@ 3583 :> 251 @@ 56 :> 243, 3584),
      Image(0 :> 237 @@ 1 :> 94 @@ 2 :> 251 @@ 3582 :> 251, 3583) }

InitEi ==
    /\ \E m \in FrameMachines, p \in EiPrograms :
          zx = zx_load_rom(zx_new(m), p, RomLen(m)).z
    /\ frame = FrameIdle
    /\ ret = 0
    /\ obs = ObsNone
    /\ audio = AudioOff

SpecEi == InitEi /\ [][NextFrame]_vars /\ WF_vars(NextFrame)

(* C16: DI sets IFF1 = IFF2 = 0 and cancels a pending EI delay; from then  *)
(* on interrupts stay disabled whatever runs, until the next EI; accepting *)
(* a maskable interrupt sets IFF1 = 0 and cancels a pending EI delay       *)
(* before the handler's first instruction runs.                            *)
C16_DiAndAcceptCancelEi ==
    [][/\ (obs'.op = "iter" /\ Executes(243)
            => obs'.pre.iff1 = 0 /\ obs'.pre.iff2 = 0 /\ obs'.pre.ei_delay = 0)
       /\ (obs'.op = "iter" /\ zx.iff1 = 0 /\ zx.iff2 = 0 /\ zx.ei_delay = 0
           /\ ~Executes(251)
            => zx'.iff1 = 0 /\ zx'.iff2 = 0 /\ zx'.ei_delay = 0
               /\ obs'.pre.pc = zx'.pc /\ obs'.pre.sp = zx'.sp)
       /\ (obs'.op = "iter" /\ obs'.raised /\ obs'.pre.iff1 = 1
            => zx'.iff1 = 0 /\ zx'.ei_delay = 0)]_vars

(* The frame interrupt was accepted right after an EI whose delay was      *)
(* still pending, and the handler's first instruction has since run with   *)
(* interrupts still disabled.                                              *)
C16_Witness ==
    /\ obs.op = "iter" /\ ~obs.raised /\ obs.ints = 1
    /\ zx.last_opcode = 0 /\ zx.pc = 57 /\ zx.sp = 65534
    /\ zx.iff1 = 0 /\ zx.ei_delay = 0
    /\ mem_read(zx, 3583) = 251 /\ mem_read16(zx, 65534) = 3584

(***************************************************************************)
(* Host control: a program that selects IM 1, enables interrupts, locks    *)
(* the paging port and halts, stepped by the host, with zx_tape_play and   *)
(* zx_reset called in between, on instances with and without a tape.       *)
(***************************************************************************)
MaxHostSteps == 30

MaxHostPlays == 2

(* IM 1; EI; LD BC,7FFD; LD A,27; OUT (C),A; HALT *)
HostProgram == <<237, 86, 251, 1, 253, 127, 62, 39, 237, 121, 118>>

HostMachine(m) ==
    zx_load_memory(zx_load_rom(zx_new(m), JumpRom(m), RomLen(m)).z,
                   32768, HostProgram)

(* No tape, a TZX file without blocks, a TZX tape of a short turbo block   *)
(* and a standard block, a one-block TAP tape.                             *)
HostTapes(z) ==
    { z,
      zx_load_tzx(z, TzxFile(<<>>)).z,
      zx_load_tzx(z, TzxFile(<<"turbo", "std">>)).z,
      zx_load_tap(z, TapFile(<<"blk">>), FALSE).z }

HostObs == [op |-> "init", steps |-> 0, plays |-> 0, resets |-> 0]

InitHost ==
    /\ \E m \in FrameMachines : zx \in HostTapes(HostMachine(m))
    /\ frame = FrameIdle
    /\ ret = 0
    /\ obs = HostObs
    /\ audio = AudioOff

HostStep ==
    /\ obs.steps < MaxHostSteps
    /\ StepResult(zx_step(zx))
    /\ obs' = [obs EXCEPT !.op = "step", !.steps = @ + 1]
    /\ UNCHANGED frame
    /\ UNCHANGED audio

HostPlay ==
    /\ obs.plays < MaxHostPlays
    /\ \E play \in BOOLEAN :
          /\ zx' = zx_tape_play(zx, play)
          /\ obs' = [obs EXCEPT !.op = IF play THEN "play" ELSE "stop",
                                !.plays = @ + 1]
    /\ ret' = 1
    /\ UNCHANGED frame
    /\ UNCHANGED audio

HostReset ==
    /\ obs.resets < MaxResets
    /\ zx' = zx_reset(zx)
    /\ ret' = zx'.tape.loaded
    /\ obs' = [obs EXCEPT !.op = "reset", !.resets = @ + 1]
    /\ UNCHANGED frame
    /\ UNCHANGED audio

NextHost == HostStep \/ HostPlay \/ HostReset

SpecHost == InitHost /\ [][NextHost]_vars

(* The position in the tape: block, byte, bit and pulse within the bit. *)
TapeCursor(z) ==
    <<z.tape.block_idx, z.tape.byte_idx, z.tape.bit_idx, z.tape.pulse_in_bit>>

(* C17: reset, in any state, clears the paging port and the paging lock    *)
(* (mapping ROM 0 and RAM banks 5, 2, 0), sets PC = 0, IFF1 = IFF2 = 0 and *)
(* IM = 0, leaves the CPU not halted with no EI pending, keeps the loaded  *)
(* tape blocks, puts the tape cursor at block 0 with playback stopped, and *)
(* returns true exactly when at least one tape block is loaded.            *)
C17_Reset ==
    [][obs'.op = "reset" =>
         /\ zx'.port_7ffd = 0 /\ zx'.paging_disabled = 0
         /\ zx'.mem_map = <<MapRom(0), MapRam(5), MapRam(2), MapRam(0)>>
         /\ zx'.pc = 0 /\ zx'.iff1 = 0 /\ zx'.iff2 = 0 /\ zx'.im = 0
         /\ zx'.halted = 0 /\ zx'.ei_delay = 0
         /\ zx'.tape.blocks = zx.tape.blocks
         /\ zx'.tape.block_count = zx.tape.block_count
         /\ TapeCursor(zx') = <<0, 0, 0, 0>>
         /\ zx'.tape.playing = 0 /\ zx'.tape_active = 0
         /\ zx'.tape.phase = TAPE_PHASE_STOP
         /\ ret' \in {0, 1}
         /\ ret' = 1 <=> Len(zx.tape.blocks) >= 1]_vars

(* Reset of a halted 128K machine with IM 1, interrupts enabled, paging    *)
(* locked on bank 7 and the tape playing its second block.                 *)
C17_Witness ==
    /\ obs.op = "reset" /\ obs.steps = 20 /\ obs.plays = 1
    /\ zx.machine_type = MACHINE_128K
    /\ zx.pc = 0 /\ zx.port_7ffd = 0 /\ zx.tape.playing = 0
    /\ Len(zx.tape.blocks) = 2 /\ ret = 1
    /\ zx.tape_played > 100

(* The cursor with the phase and the remaining pulse time and pilot count. *)
FullCursor(z) ==
    TapeCursor(z) \o <<z.tape.phase, z.tape.tstates_rem, z.tape.pilot_rem>>

(* The cursor is as tape_rewind leaves it, or as it is when block 0 has    *)
(* just been started from there.                                           *)
AtTapeStart(z) ==
    FullCursor(z) \in {FullCursor(tape_rewind(z)),
                       FullCursor(tape_start_block(tape_rewind(z)))}

(* C20: an explicit tape_play(true) or tape_play(false), issued at any     *)
(* point of playback, resets the tape cursor (block index, byte and bit    *)
(* index, phase, remaining pulse time) so that the signal restarts from    *)
(* the beginning, while the loaded blocks are kept.                        *)
C20_PlayResetsCursor ==
    [][obs'.op \in {"play", "stop"} =>
         /\ AtTapeStart(zx')
         /\ zx'.tape.blocks = zx.tape.blocks]_vars

(* C19: over any run_frame, the T-states fed to the tape engine and the    *)
(* T-states fed to the audio mixer both equal the T-states added to the    *)
(* frame counter, those charged for accepting the frame interrupt          *)
(* included.                                                               *)
C19_TicksMatchCounter ==
    obs.op = "return" => zx.audio_fed = zx.tstates /\ zx.tape_fed = zx.tstates

(***************************************************************************)
(* Audio writes: the host calls zx_audio_write with strings of zero        *)
(* samples of several lengths; the device answers the status ioctl and every write    *)
(* ioctl as it likes.                                                      *)
(***************************************************************************)
MaxAudioWrites == 2

(* Lengths in bytes of the sample strings (two bytes per mono frame). *)
AudioLens == {0, 3, 12000, 20000}

AudioPeriods == {0, 6000}

(* Answers of the status ioctl: failure, or a delay in frames. *)
StatusAnswers ==
    {[ok |-> FALSE, delay |-> 0]} \cup
    {[ok |-> TRUE, delay |-> d] : d \in {-1, 5000, 5733, 7498}}

(* Answers of the write ioctl to an offer of n frames: all accepted, part  *)
(* accepted, none accepted, or failure with EAGAIN, EPIPE or another       *)
(* errno.                                                                  *)
XferAnswers(n) ==
    {[err |-> "", result |-> r] : r \in {n, (n + 1) \div 2, 0}} \cup
    {[err |-> e, result |-> 0] : e \in {"EAGAIN", "EPIPE", "EIO"}}

(* attempts: write ioctls issued by the call so far; offered and answer:   *)
(* the last of them; queued and rpos0: ring_count and ring_rpos when the   *)
(* flush began.                                                            *)
AudioObs ==
    [op |-> "init", writes |-> 0, attempts |-> 0, offered |-> 0,
     answer |-> [err |-> "", result |-> 0], queued |-> 0, rpos0 |-> 0]

InitAudio ==
    /\ audio \in {AudioOff} \cup {AudioOn(44100, p) : p \in AudioPeriods}
    /\ zx = ZeroState
    /\ frame = FrameIdle
    /\ ret = 0
    /\ obs = AudioObs

WriteResult(e, a1) ==
    /\ audio' = e.a
    /\ ret' = IF e.returned THEN e.result ELSE ret
    /\ obs' = [AudioObs EXCEPT !.op = "write", !.writes = obs.writes + 1,
                               !.queued = a1.ring_count, !.rpos0 = a1.ring_rpos]

AudioWrite ==
    /\ audio.pc = "idle"
    /\ obs.writes < MaxAudioWrites
    /\ \E len \in AudioLens :
          IF audio.initialized = 0 \/ len = 0
          THEN WriteResult([a |-> audio, returned |-> TRUE, result |-> 0], audio)
          ELSE \E a1 \in {EnqueueChunks(audio, Silence, len \div 2)}, st \in StatusAnswers :
                  WriteResult(FlushEnter(a1, st), a1)
    /\ UNCHANGED <<zx, frame>>

FlushResult(r, n, xfer) ==
    /\ audio' = r.a
    /\ ret' = IF r.returned THEN r.result ELSE ret
    /\ obs' = [obs EXCEPT !.op = "flush",
                          !.attempts = IF n > 0 THEN @ + 1 ELSE @,
                          !.offered = n, !.answer = xfer]

AudioFlushStep ==
    /\ audio.pc = "flush"
    /\ \E xfer \in XferAnswers(FlushOffer(audio)) :
          FlushResult(FlushIter(audio, xfer), FlushOffer(audio), xfer)
    /\ UNCHANGED <<zx, frame>>

NextAudio == AudioWrite \/ AudioFlushStep

SpecAudio == InitAudio /\ [][NextAudio]_vars /\ WF_vars(AudioFlushStep)

(* The device did not take the offer: an errno, or no frame accepted. *)
Refused(xfer) == xfer.err # "" \/ xfer.result <= 0

(* C18: an audio write returns after finitely many device write attempts   *)
(* whatever the device answers: a flush in progress always returns; every  *)
(* pass of its loop either ends the call or removes at least one frame     *)
(* from the ring; an attempt the device refuses ends the call with the     *)
(* ring as it was (no wait, no retry); the call issues at most one attempt *)
(* more than there were frames queued; and the frames the device did not   *)
(* accept stay queued: the ring has lost exactly the accepted frames,      *)
(* which is the number the call returns.                                   *)
C18_WriteNeverStalls ==
    /\ (audio.pc = "flush") ~> (audio.pc = "idle")
    /\ [](obs.attempts <= obs.queued + 1)
    /\ [](obs.op = "flush" =>
            /\ audio.ring_count = obs.queued - audio.total_written
            /\ audio.ring_rpos = (obs.rpos0 + audio.total_written) % ZX_AUDIO_RING_FRAMES
            /\ audio.pc = "idle" => ret = audio.total_written)
    /\ [][audio.pc = "flush" =>
            /\ audio'.pc = "idle" \/ audio'.ring_count < audio.ring_count
            /\ (obs'.offered > 0 /\ Refused(obs'.answer)
                 => /\ audio'.pc = "idle"
                    /\ audio'.ring_count = audio.ring_count
                    /\ audio'.ring_rpos = audio.ring_rpos
                    /\ ret' = audio.total_written)]_vars

(* The device took part of the first offer and answered EAGAIN to the      *)
(* second: the call returned the frames taken and the rest is still in the *)
(* ring.                                                                   *)
C18_Witness ==
    /\ obs.op = "flush" /\ audio.pc = "idle"
    /\ obs.attempts = 2 /\ obs.answer.err = "EAGAIN" /\ obs.offered > 0
    /\ ret > 0 /\ ret = audio.total_written
    /\ audio.ring_count = obs.queued - ret /\ audio.ring_count > 0

(***************************************************************************)
(* Undefined encodings: programs made of ED-prefixed second bytes that     *)
(* execute_ed has no case for and of DD/FD prefixes before bytes that      *)
(* execute_index has no case for, run for one frame, one of them with      *)
(* interrupts enabled.                                                     *)
(***************************************************************************)
UndefPrograms ==
    { <<237, 0, 237, 119, 237, 255, 237, 237, 0, 195, 0, 0>>,
      <<221, 1, 52, 18, 253, 62, 7, 221, 253, 62, 9, 253, 118>>,
      Image(0 :> 237 @@ 1 :> 86 @@ 2 :> 251 @@ 3 :> 237 @@ 4 :> 127
            @@ 5 :> 221 @@ 6 :> 24 @@ 7 :> 250
            @@ 56 :> 237 @@ 57 :> 48 @@ 58 :> 253 @@ 59 :> 237 @@ 60 :> 77, 61) }

InitUndef ==
    /\ \E m \in FrameMachines, p \in UndefPrograms :
          zx = zx_load_rom(zx_new(m), p, RomLen(m)).z
    /\ frame = FrameIdle
    /\ ret = 0
    /\ obs = ObsNone
    /\ audio = AudioOff

SpecUndef == InitUndef /\ [][NextFrame]_vars /\ WF_vars(NextFrame)

(* The byte after the opcode the next instruction fetch will read. *)
NextSecond == mem_read(zx, U16(zx.pc + 1))

(* The next iteration executes ED followed by a byte without a case. *)
UndefinedEd ==
    IterStep /\ zx.halted = 0 /\ NextOpcode = 237 /\ NextSecond \notin EdHandled

(* The next iteration executes DD or FD followed by a byte without a case. *)
UndefinedIndex ==
    IterStep /\ zx.halted = 0 /\ NextOpcode \in {221, 253}
    /\ NextSecond \notin IndexHandled

(* What a NOP changes: program counter, refresh register, opcode trace,    *)
(* the frame counter, the audio clock and a pending EI delay.              *)
NopFields ==
    {"pc", "r", "last_opcode", "tstates", "audio_phase_accum", "audio_sample_idx",
     "ay", "audio_fed", "tape_fed", "edges", "ei_delay", "iff1", "iff2"}

(* The iteration cost t T-states and moved PC by n; registers, flags,      *)
(* memory and port state are as before, R is incremented once and a        *)
(* pending EI delay has run out as after any instruction other than EI.    *)
NoOp(n, t) ==
    /\ obs'.tcost = t
    /\ obs'.pre.pc = U16(zx.pc + n) /\ obs'.pre.sp = zx.sp
    /\ obs'.pre.ram = zx.ram_banks /\ obs'.pre.halted = 0
    /\ obs'.pre.ei_delay = 0
    /\ obs'.pre.iff1 = (IF zx.ei_delay # 0 THEN 1 ELSE zx.iff1)
    /\ obs'.pre.iff2 = (IF zx.ei_delay # 0 THEN 1 ELSE zx.iff2)
    /\ ~(obs'.raised /\ obs'.pre.iff1 = 1) =>
          /\ \A f \in (DOMAIN zx) \ NopFields : zx'[f] = zx[f]
          /\ zx'.pc = U16(zx.pc + n) /\ zx'.r = IncR(zx.r)
          /\ zx'.tstates = zx.tstates + t
          /\ zx'.audio_fed = zx.audio_fed + t

MaxKeySteps == 2

MaxKeyCalls == 2

MaxRomCalls == 1

(* Rows and bits as Lua integers: -1, the ends of the valid range, one     *)
(* past it, and 2^32 + 3 (rows) and 2^32 + 2 (bits).                       *)
KeyRows ==
    {LuaInteger(0, -1), LuaInteger(0, 0), LuaInteger(0, 7), LuaInteger(0, 8),
     LuaInteger(1, 3)}

KeyBits ==
    {LuaInteger(0, -1), LuaInteger(0, 0), LuaInteger(0, 4), LuaInteger(0, 5),
     LuaInteger(1, 2)}

RomLens == {0, 16383, 16384, 32768, 49152}

(* DI; HALT *)
OtherRom == <<243, 118>>

KeysObs ==
    [op |-> "init", steps |-> 0, keys |-> 0, roms |-> 0,
     row |-> LuaInteger(0, 0), bit |-> LuaInteger(0, 0), len |-> 0]

InitKeys ==
    /\ \E m \in FrameMachines :
          \E t \in HostTapes(HostMachine(m)) : zx = zx_tape_play(t, TRUE)
    /\ frame = FrameIdle
    /\ ret = 0
    /\ obs = KeysObs
    /\ audio = AudioOff

KeysStep ==
    /\ obs.steps < MaxKeySteps
    /\ StepResult(zx_step(zx))
    /\ obs' = [obs EXCEPT !.op = "step", !.steps = @ + 1]
    /\ UNCHANGED frame
    /\ UNCHANGED audio

KeysKey ==
    /\ obs.keys < MaxKeyCalls
    /\ \E down \in BOOLEAN, row \in KeyRows, bit \in KeyBits :
          /\ zx' = IF down THEN zx_key_down(zx, row, bit) ELSE zx_key_up(zx, row, bit)
          /\ obs' = [obs EXCEPT !.op = IF down THEN "key_down" ELSE "key_up",
                                !.keys = @ + 1, !.row = row, !.bit = bit]
    /\ ret' = 1
    /\ UNCHANGED frame
    /\ UNCHANGED audio

RomResult(r, len) ==
    /\ zx' = r.z
    /\ ret' = IF r.ok THEN 1 ELSE 0
    /\ obs' = [obs EXCEPT !.op = "load_rom", !.roms = @ + 1, !.len = len]

KeysLoadRom ==
    /\ obs.roms < MaxRomCalls
    /\ \E len \in RomLens : RomResult(zx_load_rom(zx, OtherRom, len), len)
    /\ UNCHANGED frame
    /\ UNCHANGED audio

NextKeys == KeysStep \/ KeysKey \/ KeysLoadRom

SpecKeys == InitKeys /\ [][NextKeys]_vars

(* The value of a Lua integer lies in lo .. hi (both within int). *)
LuaIn(n, lo, hi) == n.hi = 0 /\ n.lo >= lo /\ n.lo <= hi

ValidKey(row, bit) == LuaIn(row, 0, 7) /\ LuaIn(bit, 0, 4)

(* C22: key_down and key_up with a row outside 0..7 or a bit outside 0..4, *)
(* and load_rom with a length different from the machine's ROM size,       *)
(* change no part of the instance state; a valid key_down or key_up        *)
(* changes only the addressed bit of the addressed half-row (cleared by    *)
(* key_down, set by key_up).                                               *)
C22_InvalidArgsRejected ==
    [][/\ obs'.op \in {"key_down", "key_up"} /\ ~ValidKey(obs'.row, obs'.bit)
            => zx' = zx
       /\ obs'.op = "load_rom" /\ obs'.len # RomLen(zx.machine_type)
            => zx' = zx /\ ret' = 0
       /\ obs'.op \in {"key_down", "key_up"} /\ ValidKey(obs'.row, obs'.bit)
            => /\ \A f \in (DOMAIN zx) \ {"keyboard_rows"} : zx'[f] = zx[f]
               /\ \A r \in 0 .. 7, b \in 0 .. 7 :
                     Bit(zx'.keyboard_rows[r], b) =
                        IF r = obs'.row.lo /\ b = obs'.bit.lo
                        THEN (IF obs'.op = "key_down" THEN 0 ELSE 1)
                        ELSE Bit(zx.keyboard_rows[r], b)]_vars

(***************************************************************************)
(* Tape ticks of any size: short tapes played T-state by T-state, so that  *)
(* every position of the player inside them is reached, and in larger      *)
(* steps.                                                                  *)
(***************************************************************************)
(* Tapes whose blocks last between 60 and 7100 T-states: zero-length and   *)
(* 1 ms pauses after the data, a stop block, a 2 ms pause block, blocks    *)
(* without pilot, a tone and a pulse sequence, a forced start level.       *)
TickTapes ==
    { <<"turbo", "turbo_p">>, <<"turbo_p", "turbo0">>, <<"tone", "pulses", "pure">>,
      <<"level", "turbo">>, <<"pure", "turbo">>, <<"pause", "turbo">>,
      <<"turbo", "pause0", "turbo">>, <<"pause0", "turbo">>, <<>> }

(* T-states by which the specification advances the player: 1 and 4       *)
(* except in the middle of a pause, 500 anywhere.                          *)
TickSteps == {1, 4, 500}

MidPause(z) == z.tape.phase = TAPE_PHASE_PAUSE /\ z.tape.tstates_rem > 16

(* The a and b of the claim. *)
TickSizes == {1, 2, 3, 7, 10, 24, 100, 3500, 7200}

TickObs == [op |-> "init"]

InitTick ==
    /\ \E ks \in TickTapes, play \in BOOLEAN :
          zx = zx_tape_play(zx_load_tzx(zx_new(MACHINE_48K), TzxFile(ks)).z, play)
    /\ frame = FrameIdle
    /\ ret = 0
    /\ obs = TickObs
    /\ audio = AudioOff

TickStep ==
    /\ \E n \in TickSteps :
          /\ MidPause(zx) => n = 500
          /\ zx' = [tape_tick(zx, n) EXCEPT !.edges = <<>>, !.tape_fed = 0]
    /\ obs' = [op |-> "tick"]
    /\ UNCHANGED ret
    /\ UNCHANGED frame
    /\ UNCHANGED audio

NextTick == TickStep

SpecTick == InitTick /\ [][NextTick]_vars

(* The tape player: cursor, phase, counters, EAR level and flags. *)
Player(z) == [tape |-> z.tape, active |-> z.tape_active]

(* C23: for every tape player state and all a, b >= 1, one tick of a + b   *)
(* T-states leaves the player in the same state as a tick of a followed by *)
(* a tick of b.                                                            *)
C23_TickAdditive ==
    \A a \in TickSizes, b \in TickSizes :
        Player(tape_tick(zx, a + b)) = Player(tape_tick(tape_tick(zx, a), b))

(* The player is at the start of the last data bit of a block that ends    *)
(* with a zero-length pause: a tick of 3 + 24 T-states ends the block,     *)
(* passes the pause and the two pilot pulses of the next block and stops   *)
(* in its first sync pulse.                                                *)
C23_Witness ==
    /\ obs.op = "tick" /\ zx.tape_active = 1 /\ zx.tape.block_count = 2
    /\ zx.tape.block_idx = 0 /\ zx.tape.phase = TAPE_PHASE_DATA
    /\ zx.tape.bit_idx = 7 /\ zx.tape.pulse_in_bit = 0 /\ zx.tape.tstates_rem = 3
    /\ tape_tick(zx, 3).tape.block_idx = 0
    /\ tape_tick(zx, 27).tape.block_idx = 1
    /\ tape_tick(zx, 27).tape.phase = TAPE_PHASE_SYNC1
    /\ tape_tick(tape_tick(zx, 3), 24).tape.tstates_rem = 5

(***************************************************************************)
(* AY envelope: on a 128K machine the envelope period and shape are        *)
(* written through the AY ports, the chip is clocked one envelope clock    *)
(* (16 AY clocks of 16 T-states) at a time, and the shape is written again *)
(* at any moment.                                                          *)
(***************************************************************************)
MaxEnvClocks == 40

MaxEnvWrites == 1

EnvShapes == 0 .. 15

EnvPeriods == {0, 1, 2}

ENV_CLOCK_TSTATES == 16 * AY_CLOCK_DIVIDER

(* OUT to the register-select port 0xFFFD, then to the data port 0xBFFD. *)
AyOut(z, reg, value) == port_write(port_write(z, 65533, reg), 49149, value)

(* shape, period: the last values written; clocks: envelope clocks since   *)
(* the shape was written; total: envelope clocks since construction.       *)
EnvObs(shape, period) ==
    [op |-> "write", shape |-> shape, period |-> period, clocks |-> 0,
     total |-> 0, writes |-> 0]

InitEnv ==
    /\ \E shape \in EnvShapes, period \in EnvPeriods :
          /\ zx = AyOut(AyOut(AyOut(zx_new(MACHINE_128K), 11, period), 12, 0),
                        13, shape)
          /\ obs = EnvObs(shape, period)
    /\ frame = FrameIdle
    /\ ret = 0
    /\ audio = AudioOff

EnvTick ==
    /\ obs.total < MaxEnvClocks
    /\ zx' = ay_tick(zx, ENV_CLOCK_TSTATES)
    /\ obs' = [obs EXCEPT !.op = "tick", !.clocks = @ + 1, !.total = @ + 1]
    /\ UNCHANGED ret
    /\ UNCHANGED frame
    /\ UNCHANGED audio

EnvWrite ==
    /\ obs.writes < MaxEnvWrites
    /\ \E shape \in EnvShapes :
          /\ zx' = AyOut(zx, 13, shape)
          /\ obs' = [obs EXCEPT !.op = "write", !.shape = shape, !.clocks = 0,
                                !.writes = @ + 1]
    /\ UNCHANGED ret
    /\ UNCHANGED frame
    /\ UNCHANGED audio

NextEnv == EnvTick \/ EnvWrite

SpecEnv == InitEnv /\ [][NextEnv]_vars

(* Envelope steps completed since the shape was written: one step per      *)
(* period envelope clocks (period 0 counts as 1).                          *)
EnvSteps == obs.clocks \div (IF obs.period = 0 THEN 1 ELSE obs.period)

Decay(pos) == 15 - pos

Attack(pos) == pos

(* C24: for every envelope shape 0..7 written to register 13 and every     *)
(* envelope period, the envelope volume makes one 16-step ramp (downwards  *)
(* from 15 for shapes 0-3, upwards from 0 for shapes 4-7) and from then on *)
(* is 0, until register 13 is written again.                               *)
C24_OneRampThenZero ==
    obs.shape \in 0 .. 7 =>
        ay_get_envelope_volume(zx.ay) =
            IF EnvSteps >= 16 THEN 0
            ELSE IF obs.shape \in 0 .. 3 THEN Decay(EnvSteps) ELSE Attack(EnvSteps)

(* The volume that the standard AY shape encoding gives shapes 8..15 in    *)
(* cycle c (0-based) at position pos of the cycle.                         *)
StandardVolume(shape, c, pos) ==
    CASE shape = 8 -> Decay(pos)
      [] shape = 12 -> Attack(pos)
      [] shape = 10 -> IF c % 2 = 0 THEN Decay(pos) ELSE Attack(pos)
      [] shape = 14 -> IF c % 2 = 0 THEN Attack(pos) ELSE Decay(pos)
      [] shape = 9 -> IF c = 0 THEN Decay(pos) ELSE 0
      [] shape = 11 -> IF c = 0 THEN Decay(pos) ELSE 15
      [] shape = 13 -> IF c = 0 THEN Attack(pos) ELSE 15
      [] shape = 15 -> IF c = 0 THEN Attack(pos) ELSE 0

(* C25: for envelope shapes 8..15 the sequence of envelope volumes follows *)
(* the standard AY shape encoding: 8 repeats the decay ramp, 12 repeats    *)
(* the attack ramp, 10 alternates decay/attack, 14 alternates              *)
(* attack/decay, 9 decays once then holds 0, 11 decays once then holds 15, *)
(* 13 attacks once then holds 15, and 15 attacks once then holds 0.        *)
C25_ContinueShapes ==
    obs.shape \in 8 .. 15 =>
        ay_get_envelope_volume(zx.ay) =
            StandardVolume(obs.shape, EnvSteps \div 16, EnvSteps % 16)

(***************************************************************************)
(* Snapshot RLE: snapshots whose compressed data is built from runs        *)
(* (ED ED n v) and literal bytes so that it decodes to exactly, fewer than *)
(* or more than the expected number of bytes, loaded one after another.    *)
(***************************************************************************)
MaxRleLoads == 2

RleRunOf(n, v) == [run |-> TRUE, n |-> n, v |-> v]

RleLiteral(v) == [run |-> FALSE, n |-> 1, v |-> v]

(* The bytes of the items in the compressed stream. *)
RleEncode(items) ==
    Concat([i \in 1 .. Len(items) |->
              IF items[i].run THEN <<237, 237, items[i].n, items[i].v>>
              ELSE <<items[i].v>>])

(* The bytes the items stand for. *)
RleExpand(items) ==
    Concat([i \in 1 .. Len(items) |-> [k \in 1 .. items[i].n |-> items[i].v]])

(* Compressed data: the items of head, then reps runs of 255 zero bytes,   *)
(* then the items of tail; v1 tells the legacy format, whose data ends     *)
(* with the marker 00 ED ED 00 when marker is set.                         *)
RleCase(v1, head, reps, tail, marker) ==
    [v1 |-> v1, head |-> head, reps |-> reps, tail |-> tail, marker |-> marker]

RleHead == <<RleRunOf(3, 170), RleLiteral(1), RleLiteral(237), RleLiteral(2)>>

RleCases ==
    { RleCase(FALSE, RleHead, 64, <<RleRunOf(58, 9)>>, FALSE),
      RleCase(FALSE, RleHead, 64, <<RleRunOf(57, 9), RleLiteral(237)>>, FALSE),
      RleCase(FALSE, RleHead, 64, <<RleRunOf(57, 9)>>, FALSE),
      RleCase(FALSE, RleHead, 64, <<RleRunOf(59, 9)>>, FALSE),
      RleCase(FALSE, RleHead, 64, <<RleRunOf(58, 9), RleLiteral(5)>>, FALSE),
      RleCase(FALSE, RleHead, 64, <<RleRunOf(0, 7), RleRunOf(58, 9)>>, FALSE),
      RleCase(FALSE, <<>>, 0, <<>>, FALSE),
      RleCase(FALSE, <<RleLiteral(237)>>, 0, <<>>, FALSE),
      RleCase(FALSE, <<RleLiteral(237), RleLiteral(3)>>, 64, <<RleRunOf(62, 0)>>, FALSE),
      RleCase(TRUE, <<>>, 0, <<>>, TRUE),
      RleCase(TRUE, RleHead, 192, <<RleRunOf(186, 9)>>, TRUE),
      RleCase(TRUE, RleHead, 192, <<RleRunOf(186, 9)>>, FALSE),
      RleCase(TRUE, RleHead, 192, <<RleRunOf(185, 9)>>, TRUE),
      RleCase(TRUE, RleHead, 192, <<RleRunOf(187, 9)>>, TRUE),
      RleCase(TRUE, RleHead, 100, <<>>, TRUE) }

RleData(c) ==
    RleEncode(c.head) \o Repeat(<<237, 237, 255, 0>>, c.reps) \o RleEncode(c.tail)
    \o (IF c.marker THEN <<0, 237, 237, 0>> ELSE <<>>)

(* The snapshot file of a case: a legacy file with the compressed flag, or *)
(* a version 2 file for a 48K machine with one block for page 8.           *)
RleFile(c) ==
    IF c.v1 THEN SnapHdr(32768, 37) \o RleData(c)
    ELSE SnapV2(0, 0) \o SnapBlock(8, RleData(c))

(* Number of bytes the data of a case decodes to, and byte number off. *)
RleDecodedLen(c) == Len(RleExpand(c.head)) + 255 * c.reps + Len(RleExpand(c.tail))

RleDecodedByte(c, off) ==
    IF off < Len(RleExpand(c.head)) THEN RleExpand(c.head)[off + 1]
    ELSE IF off < Len(RleExpand(c.head)) + 255 * c.reps THEN 0
    ELSE RleExpand(c.tail)[off - Len(RleExpand(c.head)) - 255 * c.reps + 1]

RleExpectedLen(c) == IF c.v1 THEN 3 * RAM_BANK_SIZE ELSE RAM_BANK_SIZE

RleObs == [op |-> "init", loads |-> 0, case |-> RleCase(FALSE, <<>>, 0, <<>>, FALSE)]

InitRle ==
    /\ \E m \in FrameMachines :
          zx = zx_load_memory(zx_load_rom(zx_new(m), JumpRom(m), RomLen(m)).z,
                              32768, HostProgram)
    /\ frame = FrameIdle
    /\ ret = 0
    /\ obs = RleObs
    /\ audio = AudioOff

RleLoad ==
    /\ obs.loads < MaxRleLoads
    /\ \E c \in RleCases :
          /\ LoadResult(zx_load_z80(zx, BsOfSeq(RleFile(c))))
          /\ obs' = [op |-> "load", loads |-> obs.loads + 1, case |-> c]
    /\ UNCHANGED frame
    /\ UNCHANGED audio

NextRle == RleLoad

SpecRle == InitRle /\ [][NextRle]_vars

(* The RAM banks that hold the decoded data, in order. *)
RleBanks(c) == IF c.v1 THEN <<5, 2, 0>> ELSE <<5>>

(* C26: snapshot RLE decoding expands each ED ED n v to n copies of v and  *)
(* copies every other byte literally (an ED not followed by ED is a        *)
(* literal), and in the legacy format stops at the marker 00 ED ED 00;     *)
(* load_snapshot fails whenever the decoded data of a block is not exactly *)
(* the expected size (16384 bytes per memory block, 49152 bytes for the    *)
(* legacy image), whether the data decodes to fewer or to more bytes.      *)
C26_RleExactSize ==
    obs.op = "load" =>
        /\ ret.ok <=> RleDecodedLen(obs.case) = RleExpectedLen(obs.case)
        /\ ret.ok =>
              \A k \in 1 .. Len(RleBanks(obs.case)), off \in 0 .. (RAM_BANK_SIZE - 1) :
                 BankGet(zx.ram_banks[RleBanks(obs.case)[k]], off) =
                    RleDecodedByte(obs.case, (k - 1) * RAM_BANK_SIZE + off)

(***************************************************************************)
(* The AY noise generator: the machine is created, its noise period is     *)
(* written through the AY ports, the AY is clocked by ay_tick, and the     *)
(* machine is reset or loaded from a snapshot in between.                  *)
(***************************************************************************)
MaxNoiseTicks == 7

MaxNoiseOps == 1

NoisePeriods == {0, 3}

(* T-states handed to ay_tick: less than one AY clock, one clock, many. *)
NoiseTicks == {7, AY_CLOCK_DIVIDER, 10 * AY_CLOCK_DIVIDER}

(* A version 2 snapshot without memory blocks: hardware id hw, AY register *)
(* 6 selected, noise period np in register 6.                              *)
NoiseSnap(hw, np) ==
    SnapHdr(0, 5) \o wr16le(23) \o wr16le(32768) \o <<hw, 0, 0, 4, 6>>
    \o <<1, 2, 0, 0, 0, 0, np, 56, 0, 0, 0, 0, 0, 0, 0, 0>>

NoiseInputs ==
    { BsOfSeq(SnapHdr(0, 5) \o wr16le(23) \o <<0, 128, 0>>),
      BsOfSeq(NoiseSnap(0, 2)),
      BsOfSeq(NoiseSnap(4, 2)) }

NoiseObs == [op |-> "new", n |-> 0, ticks |-> 0, ops |-> 0]

InitNoise ==
    /\ \E m \in {MACHINE_48K, MACHINE_128K, MACHINE_PLUS2} : zx = zx_new(m)
    /\ obs = NoiseObs
    /\ frame = FrameIdle
    /\ ret = 0
    /\ audio = AudioOff

NoiseTick ==
    /\ obs.ticks < MaxNoiseTicks
    /\ \E n \in NoiseTicks :
          /\ zx' = ay_tick(zx, n)
          /\ obs' = [obs EXCEPT !.op = "tick", !.n = n, !.ticks = @ + 1]
    /\ UNCHANGED ret
    /\ UNCHANGED frame
    /\ UNCHANGED audio

NoiseWrite ==
    /\ obs.ops < MaxNoiseOps
    /\ \E np \in NoisePeriods :
          /\ zx' = AyOut(zx, 6, np)
          /\ obs' = [obs EXCEPT !.op = "write", !.ops = @ + 1]
    /\ UNCHANGED ret
    /\ UNCHANGED frame
    /\ UNCHANGED audio

NoiseReset ==
    /\ obs.ops < MaxNoiseOps
    /\ zx' = zx_reset(zx)
    /\ obs' = [obs EXCEPT !.op = "reset", !.ops = @ + 1]
    /\ UNCHANGED ret
    /\ UNCHANGED frame
    /\ UNCHANGED audio

NoiseLoad ==
    /\ obs.ops < MaxNoiseOps
    /\ \E input \in NoiseInputs :
          /\ LoadResult(zx_load_z80(zx, input))
          /\ obs' = [obs EXCEPT !.op = "load", !.ops = @ + 1]
    /\ UNCHANGED frame
    /\ UNCHANGED audio

NextNoise == NoiseTick \/ NoiseWrite \/ NoiseReset \/ NoiseLoad

SpecNoise == InitNoise /\ [][NextNoise]_vars

(* An ay_tick call of at most one AY clock made a noise step: the divider  *)
(* was crossed and the noise counter wrapped to 0.                         *)
NoiseStepped ==
    /\ obs'.op = "tick"
    /\ obs'.n <= AY_CLOCK_DIVIDER
    /\ zx.machine_type # MACHINE_48K
    /\ zx.ay.tstates_accum + obs'.n >= AY_CLOCK_DIVIDER
    /\ zx'.ay.noise_counter = 0

NoiseHeld ==
    /\ obs'.op = "tick"
    /\ obs'.n <= AY_CLOCK_DIVIDER
    /\ ~NoiseStepped

(* C27: the noise shift register is never 0 and stays below 2^17 after     *)
(* create, reset, snapshot load, register writes and AY ticks; a noise     *)
(* step moves every bit one place down and puts bit 0 XOR bit 3 of the old *)
(* value into bit 16; a tick without a noise step leaves the register.     *)
C27_NoiseLfsr ==
    /\ [](zx.ay.noise_shift \in 1 .. (Pow2(17) - 1))
    /\ [][/\ NoiseStepped =>
               /\ \A i \in 0 .. 15 :
                     Bit(zx'.ay.noise_shift, i) = Bit(zx.ay.noise_shift, i + 1)
               /\ Bit(zx'.ay.noise_shift, 16) =
                     (Bit(zx.ay.noise_shift, 0) + Bit(zx.ay.noise_shift, 3)) % 2
          /\ NoiseHeld => zx'.ay.noise_shift = zx.ay.noise_shift]_vars

(* Fifteen noise steps after the register was set to 1: bit 3 fed bit 16. *)
C27_Witness ==
    /\ obs.op = "tick"
    /\ zx.ay.noise_shift = 65540

(***************************************************************************)
(* The memory table: the paging program stepped by the host, with reset    *)
(* and snapshot loads (which set the machine type and the paging byte) in  *)
(* between.                                                                *)
(***************************************************************************)
MaxMapSteps == 12

MaxMapOps == 1

(* Paging values: RAM page, screen select (bit 3), ROM select (bit 4) and  *)
(* lock (bit 5) in several combinations.                                   *)
MapValues == {0, 16, 31, 47}

(* Snapshots: a header without extension data, and version 2 files for    *)
(* 48K, 128K and +2 hardware with different paging bytes.                  *)
MapInputs ==
    { BsOfSeq(SnapHdr(0, 5)),
      BsOfSeq(SnapV2(0, 24)),
      BsOfSeq(SnapV2(4, 27)),
      BsOfSeq(SnapV2(12, 47)) }

MapObs == [op |-> "init", steps |-> 0, ops |-> 0]

InitMap ==
    /\ \E m \in FrameMachines, ph \in PortHighs, v1 \in MapValues, v2 \in MapValues :
          zx = zx_load_memory(zx_load_rom(zx_new(m), JumpRom(m), RomLen(m)).z,
                              32768, PagingProgram(ph, v1, v2))
    /\ frame = FrameIdle
    /\ ret = 0
    /\ obs = MapObs
    /\ audio = AudioOff

MapStep ==
    /\ obs.steps < MaxMapSteps
    /\ StepResult(zx_step(zx))
    /\ obs' = [obs EXCEPT !.op = "step", !.steps = @ + 1]
    /\ UNCHANGED frame
    /\ UNCHANGED audio

MapReset ==
    /\ obs.ops < MaxMapOps
    /\ zx' = zx_reset(zx)
    /\ ret' = zx'.tape.loaded
    /\ obs' = [obs EXCEPT !.op = "reset", !.ops = @ + 1]
    /\ UNCHANGED frame
    /\ UNCHANGED audio

MapLoad ==
    /\ obs.ops < MaxMapOps
    /\ \E input \in MapInputs :
          /\ LoadResult(zx_load_z80(zx, input))
          /\ obs' = [obs EXCEPT !.op = "load", !.ops = @ + 1]
    /\ UNCHANGED frame
    /\ UNCHANGED audio

NextMap == MapStep \/ MapReset \/ MapLoad

SpecMap == InitMap /\ [][NextMap]_vars

(* The table the claim gives for machine type m and paging value v. *)
MemTable(m, v) ==
    IF m = MACHINE_48K
    THEN <<MapRom(0), MapRam(5), MapRam(2), MapRam(0)>>
    ELSE <<MapRom((v \div 16) % 2), MapRam(5), MapRam(2), MapRam(v % 8)>>

ScreenOf(m, v) == IF m # MACHINE_48K /\ (v \div 8) % 2 = 1 THEN 7 ELSE 5

(* The bank the display is read from (floating_bus_read). *)
ScreenBank(z) ==
    IF z.machine_type # MACHINE_48K /\ z.active_screen # 0 THEN 7 ELSE 5

(* C28: the memory table and the displayed bank are the ones the machine   *)
(* type and the stored paging value select; a CPU step changes the stored  *)
(* value only by an accepted paging-port write (128K or +2, lock clear),   *)
(* which stores the value written; on a 48K no step changes the table.     *)
C28_MemTable ==
    /\ [](/\ zx.mem_map = MemTable(zx.machine_type, zx.port_7ffd)
          /\ ScreenBank(zx) = ScreenOf(zx.machine_type, zx.port_7ffd)
          /\ zx.mem_writable = <<0, 1, 1, 1>>)
    /\ [][obs'.op = "step" =>
            IF /\ PagingPortWrite /\ zx.machine_type # MACHINE_48K
               /\ zx.paging_disabled = 0
            THEN zx'.port_7ffd = zx.a
            ELSE zx'.port_7ffd = zx.port_7ffd /\ zx'.mem_map = zx.mem_map]_vars

(* A +2 instance whose program has selected ROM 1, RAM page 7 and the      *)
(* shadow screen with a paging-port write.                                 *)
C28_Witness ==
    /\ obs.op = "step" /\ zx.machine_type = MACHINE_PLUS2
    /\ zx.last_opcode = 237 /\ zx.port_7ffd = 24 + 7
    /\ zx.mem_map = <<MapRom(1), MapRam(5), MapRam(2), MapRam(7)>>
    /\ zx.active_screen = 1

(***************************************************************************)
(* The DATA phase: TZX files of turbo and pure-data blocks with every      *)
(* used-bit count, played in small and large tape ticks; the widths of the *)
(* pulses that end in the DATA phase are collected per block.              *)
(***************************************************************************)
DATA_BIT0_LEN == 3

DATA_BIT1_LEN == 5

(* T-states handed to tape_tick. *)
DataSteps == {1, 9, 100}

DataBytes == { <<165>>, <<202, 83>> }

DataPauses == {0, 1}

(* A block description: turbo (ID 0x11, with pilot and sync) or pure data  *)
(* (ID 0x14), u used bits in the last byte, pause in ms, the data bytes.   *)
DataBlk(turbo, u, pause, data) ==
    [turbo |-> turbo, u |-> u, pause |-> pause, data |-> data]

DataChunk(d) ==
    (IF d.turbo
     THEN <<17, 10, 0, 6, 0, 7, 0, DATA_BIT0_LEN, 0, DATA_BIT1_LEN, 0, 2, 0>>
     ELSE <<20, DATA_BIT0_LEN, 0, DATA_BIT1_LEN, 0>>)
    \o <<d.u, d.pause, 0, Len(d.data), 0, 0>> \o d.data

(* One block of every shape, alone or followed by a pure-data block of 3   *)
(* bits.                                                                   *)
DataTapes ==
    { <<DataBlk(t, u, p, data)>> \o rest :
         t \in BOOLEAN, u \in 1 .. 8, p \in DataPauses, data \in DataBytes,
         rest \in { <<>>, <<DataBlk(FALSE, 3, 0, <<96>>)>> } }

DataFile(ds) == TzxMagic \o <<1, 20>> \o Concat([i \in 1 .. Len(ds) |-> DataChunk(ds[i])])

(* pulses[i]: widths of the pulses of block i that ended in the DATA phase *)
(* so far; ended[i]: the player has left the DATA phase of block i; last:  *)
(* tape time of the last edge.                                             *)
DataObs(ds) ==
    [op |-> "play", tape |-> ds, pulses |-> [i \in 1 .. Len(ds) |-> <<>>],
     ended |-> [i \in 1 .. Len(ds) |-> FALSE], last |-> 0]

DataEdge(o, e) ==
    IF e.from.phase = TAPE_PHASE_DATA
    THEN [o EXCEPT !.pulses[e.from.block_idx + 1] = Append(@, e.at - o.last),
                   !.ended[e.from.block_idx + 1] =
                       e.to.phase # TAPE_PHASE_DATA \/ e.to.block_idx # e.from.block_idx,
                   !.last = e.at]
    ELSE [o EXCEPT !.last = e.at]

RECURSIVE DataCollect(_, _, _)
DataCollect(o, edges, k) ==
    IF k > Len(edges) THEN o
    ELSE DataCollect(DataEdge(o, edges[k]), edges, k + 1)

InitData ==
    /\ \E ds \in DataTapes :
          /\ zx = zx_tape_play(zx_load_tzx(zx_new(MACHINE_48K), DataFile(ds)).z, TRUE)
          /\ obs = DataObs(ds)
    /\ frame = FrameIdle
    /\ ret = 0
    /\ audio = AudioOff

DataResult(z) ==
    /\ zx' = [z EXCEPT !.edges = <<>>, !.tape_fed = 0]
    /\ obs' = DataCollect([obs EXCEPT !.op = "tick"], z.edges, 1)

DataStep ==
    /\ zx.tape_active = 1
    /\ \E n \in DataSteps :
          /\ MidPause(zx) => n = 100
          /\ DataResult(tape_tick(zx, n))
    /\ UNCHANGED ret
    /\ UNCHANGED frame
    /\ UNCHANGED audio

NextData == DataStep

SpecData == InitData /\ [][NextData]_vars

(* Number of bits of a block: 8 x (len - 1) + u. *)
DataBits(d) == 8 * (Len(d.data) - 1) + d.u

(* Bit k (from 0) of the data, most significant bit of each byte first. *)
DataBit(d, k) == (d.data[(k \div 8) + 1] \div Pow2(7 - (k % 8))) % 2

(* The pulse widths the claim gives for a block: two per bit. *)
DataExpected(d) ==
    [j \in 1 .. 2 * DataBits(d) |->
        IF DataBit(d, (j - 1) \div 2) = 1 THEN DATA_BIT1_LEN ELSE DATA_BIT0_LEN]

IsPrefix(s, t) == Len(s) <= Len(t) /\ s = SubSeq(t, 1, Len(s))

(* C29: the pulses of a block's DATA phase are, in order, two pulses per   *)
(* bit for the 8 x (len - 1) + u bits of the block taken most significant  *)
(* first, of the bit-0 width for a 0 and the bit-1 width for a 1; when the *)
(* player leaves the DATA phase exactly 2 x (8 x (len - 1) + u) pulses     *)
(* have been emitted, and once the tape has stopped every block has ended. *)
C29_DataPulses ==
    \A i \in 1 .. Len(obs.tape) :
       /\ IsPrefix(obs.pulses[i], DataExpected(obs.tape[i]))
       /\ obs.ended[i] => obs.pulses[i] = DataExpected(obs.tape[i])
       /\ zx.tape_active = 0 => obs.ended[i]

(* A two-byte turbo block with 3 used bits in the last byte has played to  *)
(* its end: 22 pulses, the last two for the third bit of the last byte.    *)
C29_Witness ==
    /\ obs.tape[1] = DataBlk(TRUE, 3, 1, <<202, 83>>)
    /\ obs.ended[1]
    /\ Len(obs.pulses[1]) = 22
    /\ zx.tape.phase = TAPE_PHASE_PAUSE

(***************************************************************************)
(* The audio phase accumulator: programs of instructions of different      *)
(* lengths run frame after frame by zx_run_frame, with single zx_step      *)
(* calls and a reset between the frames.                                   *)
(***************************************************************************)
MaxPhaseFrames == 2

MaxPhaseCalls == 1

(* EX (SP),IX; JP 0 (23 and 10 T-states) and LD A,1; NOP; JR -5 (7, 4 and *)
(* 12 T-states).                                                           *)
PhasePrograms == { <<221, 227, 195, 0, 0>>, <<62, 1, 0, 24, 251>> }

PhaseMachines == {MACHINE_48K, MACHINE_128K}

(* slots: sample slots stored since the accumulator was last cleared (the  *)
(* T-states ticked since then are the ghost field audio_fed); at_enter:    *)
(* slots at the start of the current frame; calls: zx_step and zx_reset   *)
(* calls so far.                                                           *)
PhaseObs == [op |-> "init", slots |-> 0, at_enter |-> 0, calls |-> 0]

InitPhase ==
    /\ \E m \in PhaseMachines, p \in PhasePrograms :
          zx = zx_load_rom(zx_new(m), p, RomLen(m)).z
    /\ frame = FrameIdle
    /\ ret = 0
    /\ obs = PhaseObs
    /\ audio = AudioOff

PhaseEnter ==
    /\ frame.pc = "idle"
    /\ frame.count < MaxPhaseFrames
    /\ zx' = [zx EXCEPT !.tstates = 0, !.screen_dirty = 0, !.audio_sample_idx = 0,
                         !.tape_fed = 0]
    /\ frame' = [pc |-> "loop", int_fired |-> 0, count |-> frame.count + 1]
    /\ obs' = [obs EXCEPT !.op = "enter", !.at_enter = obs.slots]
    /\ UNCHANGED ret
    /\ UNCHANGED audio

PhaseInterrupt(r, z1, due) ==
    /\ zx' = [(IF due THEN handle_interrupt(z1) ELSE z1) EXCEPT !.edges = <<>>]
    /\ frame' = [frame EXCEPT !.int_fired = IF due THEN 1 ELSE @]
    /\ obs' = [obs EXCEPT !.op = "iter",
                          !.slots = @ + (r.z.audio_sample_idx - zx.audio_sample_idx)]

PhaseAdvance(r, z1) == PhaseInterrupt(r, z1, IntDue(z1, frame.int_fired))

PhaseBody(r) == PhaseAdvance(r, [r.z EXCEPT !.tstates = @ + r.t])

PhaseIter ==
    /\ frame.pc = "loop"
    /\ ~FrameDone(zx)
    /\ PhaseBody(execute_one(zx))
    /\ UNCHANGED ret
    /\ UNCHANGED audio

PhaseReturn ==
    /\ frame.pc = "loop"
    /\ FrameDone(zx)
    /\ ret' = zx.screen_dirty
    /\ frame' = [frame EXCEPT !.pc = "idle"]
    /\ obs' = [obs EXCEPT !.op = "return"]
    /\ UNCHANGED zx
    /\ UNCHANGED audio

PhaseStepResult(r) ==
    /\ zx' = [r.z EXCEPT !.edges = <<>>]
    /\ ret' = r.t
    /\ obs' = [obs EXCEPT !.op = "step", !.calls = @ + 1,
                          !.slots = @ + (r.z.audio_sample_idx - zx.audio_sample_idx)]

PhaseStep ==
    /\ frame.pc = "idle"
    /\ obs.calls < MaxPhaseCalls
    /\ PhaseStepResult(zx_step(zx))
    /\ UNCHANGED frame
    /\ UNCHANGED audio

PhaseReset ==
    /\ frame.pc = "idle"
    /\ obs.calls < MaxPhaseCalls
    /\ zx' = [zx_reset(zx) EXCEPT !.audio_fed = 0]
    /\ ret' = zx'.tape.loaded
    /\ obs' = [obs EXCEPT !.op = "reset", !.calls = @ + 1, !.slots = 0,
                          !.at_enter = 0]
    /\ UNCHANGED frame
    /\ UNCHANGED audio

NextPhase == PhaseEnter \/ PhaseIter \/ PhaseReturn \/ PhaseStep \/ PhaseReset

SpecPhase == InitPhase /\ [][NextPhase]_vars

(* floor(T x 44100 / 3500000) and (T x 44100) mod 3500000, computed with   *)
(* both rates divided by their common factor 700.                          *)
PhaseSlots(T) == (T * (AUDIO_SAMPLE_RATE \div 700)) \div (CPU_CLOCK \div 700)

PhaseRest(T) == 700 * ((T * (AUDIO_SAMPLE_RATE \div 700)) % (CPU_CLOCK \div 700))

(* C30: the phase accumulator is always below 3,500,000; after ticks       *)
(* totalling T T-states since it was last cleared, floor(T x 44100 /       *)
(* 3500000) sample slots have been stored and the accumulator holds the    *)
(* remainder, whatever the instruction lengths; run_frame sets the output  *)
(* cursor to 0 and leaves the accumulator, and inside a frame the cursor   *)
(* counts the slots of that frame.                                         *)
C30_PhaseAccumulator ==
    /\ [](/\ zx.audio_phase_accum < CPU_CLOCK
          /\ obs.slots = PhaseSlots(zx.audio_fed)
          /\ zx.audio_phase_accum = PhaseRest(zx.audio_fed)
          /\ frame.pc = "loop" => zx.audio_sample_idx = obs.slots - obs.at_enter)
    /\ [][obs'.op = "enter" =>
            /\ zx'.audio_sample_idx = 0
            /\ zx'.audio_phase_accum = zx.audio_phase_accum]_vars

(* The second frame of a 48K instance began with a remainder carried over  *)
(* from the first, which had stored 880 samples.                           *)
C30_Witness ==
    /\ obs.op = "enter" /\ frame.count = 2 /\ obs.calls = 0
    /\ zx.machine_type = MACHINE_48K
    /\ zx.audio_phase_accum > 0 /\ zx.audio_sample_idx = 0
    /\ obs.slots >= 880
    /\ zx.unmodelled = 0

(***************************************************************************)
(* Gaps between blocks: TZX files of standard, turbo and pure-data blocks  *)
(* with pauses of 0, 1 and 2 ms and TAP files of one and two blocks,       *)
(* played by tape ticks; the tape time between the last data pulse of a    *)
(* block and the start of what follows is recorded per block.              *)
(***************************************************************************)
GAP_COARSE_TICK == 50000

GapPauses == {0, 1, 2}

(* A block description: its format and its pause field (TAP has none). *)
GapBlk(fmt, pause) == [fmt |-> fmt, pause |-> pause]

GapChunk(d) ==
    CASE d.fmt = "std" -> <<16, d.pause, 0, 2, 0, 255, 85>>
      [] d.fmt = "turbo" ->
           <<17, 10, 0, 6, 0, 7, 0, 3, 0, 5, 0, 2, 0, 8, d.pause, 0, 1, 0, 0, 166>>
      [] d.fmt = "pure" -> <<20, 3, 0, 5, 0, 8, d.pause, 0, 1, 0, 0, 166>>
      [] d.fmt = "tap" -> <<2, 0, 255, 90>>

GapTapes ==
    { <<GapBlk(f, p)>> \o rest :
         f \in {"turbo", "pure"}, p \in GapPauses,
         rest \in { <<>>, <<GapBlk("turbo", 0)>>, <<GapBlk("pure", 1)>> } }
    \cup { <<GapBlk("std", p)>> \o rest :
              p \in {0, 2}, rest \in { <<>>, <<GapBlk("pure", 0)>> } }
    \cup { <<GapBlk("tap", 0)>>, <<GapBlk("tap", 0), GapBlk("tap", 0)>> }

GapFile(ds) ==
    IF ds[1].fmt = "tap" THEN Concat([i \in 1 .. Len(ds) |-> GapChunk(ds[i])])
    ELSE TzxMagic \o <<1, 20>> \o Concat([i \in 1 .. Len(ds) |-> GapChunk(ds[i])])

GapLoad(z, ds) ==
    IF ds[1].fmt = "tap" THEN zx_load_tap(z, GapFile(ds), FALSE).z
    ELSE zx_load_tzx(z, GapFile(ds)).z

(* data_end[i]: tape time of the end of the last data pulse of block i, or *)
(* -1; ear_end[i]: the EAR level right after that pulse; gap[i]: tape time *)
(* from there to the start of the next block or the stop, or -1.           *)
GapObs(ds) ==
    [op |-> "play", tape |-> ds,
     data_end |-> [i \in 1 .. Len(ds) |-> -1],
     ear_end |-> [i \in 1 .. Len(ds) |-> -1],
     gap |-> [i \in 1 .. Len(ds) |-> -1]]

GapEdge(o, e) ==
    IF e.from.phase = TAPE_PHASE_DATA /\ e.to.phase = TAPE_PHASE_PAUSE
    THEN [o EXCEPT !.data_end[e.from.block_idx + 1] = e.at,
                   !.ear_end[e.from.block_idx + 1] = e.to.ear_level]
    ELSE IF e.from.phase = TAPE_PHASE_PAUSE
    THEN [o EXCEPT !.gap[e.from.block_idx + 1] = e.at - o.data_end[e.from.block_idx + 1]]
    ELSE o

RECURSIVE GapCollect(_, _, _)
GapCollect(o, edges, k) ==
    IF k > Len(edges) THEN o
    ELSE GapCollect(GapEdge(o, edges[k]), edges, k + 1)

InitGap ==
    /\ \E ds \in GapTapes :
          /\ zx = zx_tape_play(GapLoad(zx_new(MACHINE_48K), ds), TRUE)
          /\ obs = GapObs(ds)
    /\ frame = FrameIdle
    /\ ret = 0
    /\ audio = AudioOff

GapResult(z) ==
    /\ zx' = [z EXCEPT !.edges = <<>>, !.tape_fed = 0]
    /\ obs' = GapCollect([obs EXCEPT !.op = "tick"], z.edges, 1)

(* The player is near the end of a block: in a block of short pulses, in   *)
(* the last two bits of the data, or in the last 8000 T-states of a gap.   *)
GapFine(z) ==
    IF z.tape.phase = TAPE_PHASE_PAUSE THEN z.tape.tstates_rem <= 8000
    ELSE \/ CurBlock(z).bit0_len <= 100
         \/ /\ z.tape.phase = TAPE_PHASE_DATA
            /\ z.tape.byte_idx = CurBlock(z).len - 1
            /\ z.tape.bit_idx >= 6

GapStep ==
    /\ zx.tape_active = 1
    /\ \E n \in {7, 100, GAP_COARSE_TICK} :
          /\ ~GapFine(zx) => n = GAP_COARSE_TICK
          /\ GapResult(tape_tick(zx, n))
    /\ UNCHANGED ret
    /\ UNCHANGED frame
    /\ UNCHANGED audio

NextGap == GapStep

SpecGap == InitGap /\ [][NextGap]_vars

(* The gap the claim gives after block i of the tape. *)
GapExpected(ds, i) ==
    IF ds[i].fmt = "tap"
    THEN (IF i < Len(ds) THEN 200000 ELSE 3500000)
    ELSE ds[i].pause * 3500

(* C31: after the last data pulse of a TZX block with pause field p the    *)
(* next block (or the stop) comes exactly p x 3500 T-states of tape time   *)
(* later, at once when p = 0; after a TAP block it comes 200000 T-states   *)
(* later between blocks and 3500000 after the last block; during a gap of  *)
(* non-zero length the EAR level is low; the tape does not stop before     *)
(* the gap of every block has passed.                                      *)
C31_Gaps ==
    /\ \A i \in 1 .. Len(obs.tape) :
          /\ obs.gap[i] # -1 =>
               /\ obs.data_end[i] # -1
               /\ obs.gap[i] = GapExpected(obs.tape, i)
          /\ obs.data_end[i] # -1 /\ GapExpected(obs.tape, i) > 0 => obs.ear_end[i] = 0
          /\ zx.tape_active = 0 => obs.gap[i] # -1
    /\ zx.tape.phase = TAPE_PHASE_PAUSE /\ zx.tape.tstates_rem > 0 =>
          zx.tape.ear_level = 0

(* A turbo block with a 2 ms pause has been followed by a pure-data block  *)
(* with a 1 ms pause, and the tape has stopped.                            *)
C31_Witness ==
    /\ obs.tape = <<GapBlk("turbo", 2), GapBlk("pure", 1)>>
    /\ obs.gap = <<7000, 3500>>
    /\ zx.tape_active = 0 /\ zx.tape.phase = TAPE_PHASE_STOP

(***************************************************************************)
(* The tape deck under every operation that touches it.  A tape file is    *)
(* loaded into a new 48K instance; load_tape, tape_play, tape_rewind,      *)
(* reset and load_snapshot are then called in any order (MaxDeckCalls      *)
(* calls in all) between the tape ticks the CPU loop makes.  Ticks of 4    *)
(* and 23 T-states are taken near pulses of interest, coarser ones         *)
(* elsewhere.  The bit a shift by a negative count yields is chosen at     *)
(* each tick.                                                              *)
(***************************************************************************)
MaxDeckCalls == 2

DECK_COARSE_TICK == 50000

DeckPure(used, pause, data) ==
    <<20, 3, 0, 5, 0, used, pause, 0, Len(data), 0, 0>> \o data

DeckTurbo(w, pulses, used, pause, data) ==
    <<17, 2 * w, 0, w, 0, w, 0, w, 0, 2 * w, 0, pulses, 0, used, pause, 0,
      Len(data), 0, 0>> \o data

DeckPause(pause) == <<32, pause, 0>>

DeckTzx(chunks) == TzxMagic \o <<1, 20>> \o chunks

(* stop: a pause-0 block between two data blocks; turbo: two pilot pulses  *)
(* and a 1 ms pause; nine: a last byte with nine used bits; zero: every    *)
(* width and the pilot count 0; cut: a second block cut short; alien: a    *)
(* second block of an unsupported ID; tap: one TAP block; bad: no TZX      *)
(* signature; none: a TAP file without blocks.                             *)
DeckFiles ==
    [stop |-> DeckTzx(DeckPure(8, 0, <<166>>) \o DeckPause(0)
                      \o DeckPure(3, 0, <<160>>)),
     turbo |-> DeckTzx(DeckTurbo(3, 2, 0, 1, <<90>>)),
     nine |-> DeckTzx(DeckPure(9, 0, <<255>>)),
     zero |-> DeckTzx(DeckTurbo(0, 0, 8, 0, <<90>>)),
     cut |-> DeckTzx(DeckPure(8, 0, <<166>>) \o <<20, 3, 0, 5, 0, 8, 0, 0, 4, 0, 0, 1>>),
     alien |-> DeckTzx(DeckPure(8, 0, <<166>>) \o <<153, 0>>),
     tap |-> <<2, 0, 255, 90>>,
     bad |-> <<1, 2, 3, 4, 5, 6, 7, 8, 9, 10, 11>>,
     none |-> <<>>]

DeckNames == DOMAIN DeckFiles

DeckLoadFile(z, name) ==
    IF name \in {"tap", "none"} THEN zx_load_tap(z, DeckFiles[name], FALSE)
    ELSE zx_load_tzx(z, DeckFiles[name])

DeckSnaps == { BsOfSeq(<<1, 2, 3>>), BsOfSeq(NoiseSnap(0, 2)) }

(* The cursor of every data bit read at a pulse edge of the call. *)
DeckReads(edges) ==
    { [byte |-> edges[k].to.byte_idx, bit |-> edges[k].to.bit_idx,
       len |-> edges[k].to.blocks[edges[k].to.block_idx + 1].len] :
         k \in { j \in 1 .. Len(edges) : edges[j].to.phase = TAPE_PHASE_DATA } }

(* The file the blocks of the tape come from once name has been loaded     *)
(* over the tape of prev.                                                  *)
DeckFileAfter(prev, name) ==
    IF name = "bad" THEN prev ELSE IF name = "alien" THEN "none" ELSE name

DeckObs(name, ok) ==
    [op |-> "load", calls |-> 0, file |-> DeckFileAfter("none", name),
     ok |-> ok, reads |-> {}]

InitDeck ==
    /\ \E name \in DeckNames :
          /\ zx = DeckLoadFile(zx_new(MACHINE_48K), name).z
          /\ obs = DeckObs(name, DeckLoadFile(zx_new(MACHINE_48K), name).ok)
    /\ frame = FrameIdle
    /\ ret = 0
    /\ audio = AudioOff

DeckResult(z, op) ==
    /\ zx' = [z EXCEPT !.edges = <<>>, !.tape_fed = 0, !.tape_played = 0,
                       !.shift_ub = 0]
    /\ obs' = [obs EXCEPT !.op = op, !.reads = DeckReads(z.edges),
                          !.calls = IF op = "tick" THEN @ ELSE @ + 1,
                          !.file = IF z.tape.block_count = 0 THEN "none" ELSE @]
    /\ UNCHANGED <<frame, ret>>
    /\ UNCHANGED audio

(* The width of the shortest pulse of the current block. *)
DeckWidth(z) == IF CurBlock(z).bit0_len # 0 THEN CurBlock(z).bit0_len ELSE 855

(* The player is at a place where short ticks are taken: in a block of     *)
(* short pulses, in the last two bits of a block, or at the end of a gap.  *)
DeckFine(z) ==
    IF z.tape.phase = TAPE_PHASE_STOP THEN TRUE
    ELSE IF z.tape.phase = TAPE_PHASE_PAUSE THEN z.tape.tstates_rem <= 100
    ELSE \/ DeckWidth(z) <= 100
         \/ /\ z.tape.phase = TAPE_PHASE_DATA
            /\ z.tape.byte_idx = CurBlock(z).len - 1
            /\ z.tape.bit_idx >= 6

DeckTick ==
    /\ zx.tape_active = 1
    /\ \E n \in {4, 23, DECK_COARSE_TICK}, u \in {0, 1} :
          /\ n < DECK_COARSE_TICK => DeckFine(zx)
          /\ DeckResult(tape_tick([zx EXCEPT !.shift_ub = u], n), "tick")

DeckLoad ==
    /\ obs.calls < MaxDeckCalls
    /\ \E name \in DeckNames :
          /\ zx' = DeckLoadFile(zx, name).z
          /\ obs' = [obs EXCEPT !.op = "load", !.calls = @ + 1, !.reads = {},
                                !.file = DeckFileAfter(@, name),
                                !.ok = DeckLoadFile(zx, name).ok]
    /\ UNCHANGED <<frame, ret>>
    /\ UNCHANGED audio

DeckPlay ==
    /\ obs.calls < MaxDeckCalls
    /\ \E play \in BOOLEAN :
          DeckResult(zx_tape_play(zx, play), IF play THEN "play" ELSE "stop")

DeckRewind ==
    /\ obs.calls < MaxDeckCalls
    /\ DeckResult(zx_tape_rewind(zx), "rewind")

DeckReset ==
    /\ obs.calls < MaxDeckCalls
    /\ DeckResult(zx_reset(zx), "reset")

DeckSnap ==
    /\ obs.calls < MaxDeckCalls
    /\ \E input \in DeckSnaps : DeckResult(zx_load_z80(zx, input).z, "snapshot")

NextDeck == DeckTick \/ DeckLoad \/ DeckPlay \/ DeckRewind \/ DeckReset \/ DeckSnap

SpecDeck == InitDeck /\ [][NextDeck]_vars

(* Playback has stopped at a pause-0 block that is not the last block. *)
DeckAtStop ==
    /\ zx.tape.loaded = 1 /\ zx.tape.playing = 0
    /\ zx.tape.phase = TAPE_PHASE_STOP
    /\ zx.tape.block_idx + 1 < zx.tape.block_count
    /\ CurBlock(zx).len = 0 /\ CurBlock(zx).pause_ms = 0

(* C32: when playback has stopped at a pause-0 block that is not the last  *)
(* block, tape_play(true) makes the tape active again with the block that  *)
(* follows the pause-0 block as the current block.                         *)
C32_ResumeAfterStop ==
    [][DeckAtStop /\ obs'.op = "play" =>
          /\ zx'.tape_active = 1
          /\ zx'.tape.block_idx = zx.tape.block_idx + 1]_vars

DeckActiveInRange ==
    zx.tape_active = 1 /\ zx.tape.phase # TAPE_PHASE_STOP =>
       zx.tape.block_idx < zx.tape.block_count

(* Every data bit read during the last call, and the one the current data  *)
(* pulse was taken from, was read inside the block.                        *)
DeckReadsInRange ==
    /\ \A r \in obs.reads : r.byte < r.len /\ r.bit \in 0 .. 7
    /\ zx.tape.phase = TAPE_PHASE_DATA /\ zx.tape.block_idx < zx.tape.block_count =>
          /\ zx.tape.byte_idx < CurBlock(zx).len
          /\ zx.tape.bit_idx \in 0 .. 7

DeckUsedBits ==
    \A k \in 1 .. zx.tape.block_count : zx.tape.blocks[k].used_bits_last \in 1 .. 8

(* C33: while the tape is active and not stopped the block index is below  *)
(* the block count; every data bit is read at a byte index below the       *)
(* block's length and a bit index in 0..7; every loaded block has a        *)
(* used-bit count in 1..8.                                                 *)
C33_TapeCursor == DeckActiveInRange /\ DeckReadsInRange /\ DeckUsedBits

(* C34: after every operation the cached tape-active flag is set exactly   *)
(* when a tape is loaded and playing, and the loaded flag is set exactly   *)
(* when the block count is above 0.                                        *)
C34_TapeFlags ==
    /\ zx.tape_active \in {0, 1} /\ zx.tape.loaded \in {0, 1}
    /\ (zx.tape_active = 1) <=> (zx.tape.loaded # 0 /\ zx.tape.playing # 0)
    /\ (zx.tape.loaded = 1) <=> (zx.tape.block_count > 0)

(* A load has failed on a playing instance: the tape is gone while the     *)
(* playing flag is still set.                                              *)
C34_Witness ==
    /\ obs.op = "load" /\ ~obs.ok
    /\ zx.tape.playing = 1 /\ zx.tape.loaded = 0 /\ zx.tape_active = 0

(* The tape deck with a CPU that keeps executing.  A tape_tick call is     *)
(* taken apart: RunEnter is the call up to its while loop and RunIter one  *)
(* iteration of the loop; obs.left is the T-states the call has yet to     *)
(* consume (0 outside a call).  execute_one ticks the tape after every     *)
(* instruction, so both are taken whenever they can be.  Ticks are of 4 or *)
(* 23 T-states near short pulses and of DECK_MEDIUM_TICK elsewhere.        *)
(* Between ticks the user may press play or stop and rewind, MaxDeckCalls  *)
(* times in all.                                                           *)
DECK_MEDIUM_TICK == 700

RunNames == DeckNames \ {"tap"}

(* tape_tick from the check of the cached flag to the while loop. *)
TapeEnter(z) ==
    IF z.tape.autostarted = 0
    THEN (IF z.tape.phase = TAPE_PHASE_STOP
          THEN tape_start_block([z EXCEPT !.tape.autostarted = 1])
          ELSE [z EXCEPT !.tape.autostarted = 1])
    ELSE z

(* One iteration of the while loop of tape_tick with tstates left: the     *)
(* state after it and the T-states left (0 when the function returns).     *)
TapeIter(z, tstates) ==
    LET z1 == IF z.tape.phase = TAPE_PHASE_STOP THEN tape_start_block(z) ELSE z
        z2 == IF z1.tape.tstates_rem <= 0
              THEN [z1 EXCEPT !.tape.tstates_rem = 1] ELSE z1
    IN IF z1.tape.phase = TAPE_PHASE_STOP THEN [z |-> z1, rest |-> 0]
       ELSE IF z1.tape.phase = TAPE_PHASE_PAUSE
       THEN IF tstates < z1.tape.tstates_rem
            THEN [z |-> [z1 EXCEPT !.tape.tstates_rem = @ - tstates], rest |-> 0]
            ELSE [z |-> tape_start_block([z1 EXCEPT !.tape.tstates_rem = 0,
                                                    !.tape.block_idx = @ + 1]),
                  rest |-> tstates - z1.tape.tstates_rem]
       ELSE IF tstates < z2.tape.tstates_rem
       THEN [z |-> [z2 EXCEPT !.tape.tstates_rem = @ - tstates], rest |-> 0]
       ELSE [z |-> tape_advance_after_pulse([z2 EXCEPT !.tape.tstates_rem = 0,
                                                       !.tape.ear_level = 1 - @]),
             rest |-> tstates - z2.tape.tstates_rem]

RunObs(name, ok) ==
    [op |-> "load", calls |-> 0, file |-> DeckFileAfter("none", name),
     ok |-> ok, reads |-> {}, left |-> 0]

InitRun ==
    /\ \E name \in RunNames :
          /\ zx = DeckLoadFile(zx_new(MACHINE_48K), name).z
          /\ obs = RunObs(name, DeckLoadFile(zx_new(MACHINE_48K), name).ok)
    /\ frame = FrameIdle
    /\ ret = 0
    /\ audio = AudioOff

RunEnter ==
    /\ obs.left = 0
    /\ zx.tape_active = 1
    /\ \E n \in {4, 23, DECK_MEDIUM_TICK}, u \in {0, 1} :
          /\ (n < DECK_MEDIUM_TICK) <=> DeckFine(zx)
          /\ zx' = [TapeEnter(zx) EXCEPT !.shift_ub = u]
          /\ obs' = [obs EXCEPT !.op = "tick", !.left = n]
    /\ UNCHANGED <<frame, ret>>
    /\ UNCHANGED audio

RunIter ==
    /\ obs.left > 0
    /\ zx' = [TapeIter(zx, obs.left).z EXCEPT
                 !.shift_ub = IF TapeIter(zx, obs.left).rest = 0 THEN 0 ELSE @]
    /\ obs' = [obs EXCEPT !.op = "iter", !.left = TapeIter(zx, obs.left).rest]
    /\ UNCHANGED <<frame, ret>>
    /\ UNCHANGED audio

RunPlay == obs.left = 0 /\ DeckPlay

RunRewind == obs.left = 0 /\ DeckRewind

NextRun == RunEnter \/ RunIter \/ RunPlay \/ RunRewind

SpecRun ==
    InitRun /\ [][NextRun]_vars /\ WF_vars(RunEnter) /\ WF_vars(RunIter)

(* What is left to play, most significant first: the flag, the blocks, the *)
(* phases of the block (a stopped player has yet to start its block), the  *)
(* pilot pulses, the bytes, the bits, the pulses of the bit and the time   *)
(* of the pulse or pause.                                                  *)
DeckRank(z) ==
    <<z.tape_active,
      z.tape.block_count - z.tape.block_idx,
      CASE z.tape.phase = TAPE_PHASE_STOP -> 6
        [] z.tape.phase = TAPE_PHASE_PILOT -> 5
        [] z.tape.phase = TAPE_PHASE_SYNC1 -> 4
        [] z.tape.phase = TAPE_PHASE_SYNC2 -> 3
        [] z.tape.phase = TAPE_PHASE_DATA -> 2
        [] z.tape.phase = TAPE_PHASE_PAUSE -> 1,
      z.tape.pilot_rem,
      0 - z.tape.byte_idx,
      0 - z.tape.bit_idx,
      0 - z.tape.pulse_in_bit,
      z.tape.tstates_rem>>

RECURSIVE LexLess(_, _, _)
LexLess(a, b, i) ==
    IF i > Len(a) THEN FALSE
    ELSE IF a[i] # b[i] THEN a[i] < b[i]
    ELSE LexLess(a, b, i + 1)

(* C35: while the CPU keeps executing, an active tape becomes inactive,    *)
(* and when a tick made it so the player is in the stopped phase; every    *)
(* iteration of a tick on an active tape leaves less to play than there    *)
(* was, so no pulse or pause stays at the same remaining time, and a tick  *)
(* that finds the tape stopped returns.                                    *)
C35_PlaybackEnds ==
    /\ (zx.tape_active = 1) ~>
          (zx.tape_active = 0 /\ (obs.op = "iter" => zx.tape.phase = TAPE_PHASE_STOP))
    /\ [][obs.left > 0 /\ obs'.op = "iter" =>
             IF zx.tape_active = 1 THEN LexLess(DeckRank(zx'), DeckRank(zx), 1)
             ELSE obs'.left = 0]_vars

(* The block whose pulse widths and pilot count are all 0 has been played  *)
(* to the end of the tape.                                                 *)
C35_Witness ==
    /\ obs.file = "zero" /\ obs.op = "iter"
    /\ zx.tape_active = 0 /\ zx.tape.phase = TAPE_PHASE_STOP
    /\ zx.tape.block_idx = 1 /\ zx.tape.byte_idx = 1

(***************************************************************************)
(* Screen writes during a frame.  The program at 0x8000 selects a paging   *)
(* value and then stores 1 and 2 in turn at one address, forever; frames   *)
(* are run with the actions of zx_run_frame.                               *)
(***************************************************************************)
ScreenValues == {5, 7, 13, 15}

(* The first and last byte of the screen image and the byte after it, at   *)
(* 0x4000 and at 0xC000.                                                   *)
ScreenAddrs == {16384, 23295, 23296, 49152, 56063, 56064}

(* LD BC,7FFD; LD A,v; OUT (C),A; LD A,1; LD (addr),A; LD A,2;             *)
(* LD (addr),A; JP 8007                                                    *)
ScreenProgram(v, addr) ==
    <<1, 253, 127, 62, v, 237, 121, 62, 1, 50, addr % 256, addr \div 256,
      62, 2, 50, addr % 256, addr \div 256, 195, 7, 128>>

InitScreen ==
    /\ \E m \in {MACHINE_48K, MACHINE_128K}, v \in ScreenValues, addr \in ScreenAddrs :
          zx = zx_load_memory(zx_load_rom(zx_new(m), JumpRom(m), RomLen(m)).z,
                              32768, ScreenProgram(v, addr))
    /\ frame = FrameIdle
    /\ ret = 0
    /\ obs = ObsNone
    /\ audio = AudioOff

SpecScreen == InitScreen /\ [][NextFrame]_vars

(* The screen image (the first SCREEN_SIZE bytes) of a bank. *)
ScreenPart(bank) == [o \in {k \in DOMAIN bank : k < SCREEN_SIZE} |-> bank[o]]

(* The instruction just executed changed the screen image of the bank that *)
(* is displayed after it.                                                  *)
ScreenChanged ==
    ScreenPart(zx'.ram_banks[ScreenBank(zx')]) # ScreenPart(zx.ram_banks[ScreenBank(zx')])

(* C36: an instruction of a frame that changes the screen image of the     *)
(* displayed bank leaves the screen-dirty flag set; the flag stays set for *)
(* the rest of the frame and run_frame returns it.                         *)
C36_ScreenDirty ==
    [][/\ IterStep /\ ScreenChanged => zx'.screen_dirty = 1
       /\ IterStep /\ zx.screen_dirty = 1 => zx'.screen_dirty = 1
       /\ InLoop /\ obs'.op = "return" => ret' = zx.screen_dirty]_vars

(* The even ports the ROM and the loaders read: 0xFE with every half-row,  *)
(* one half-row and no half-row selected.                                  *)
EarPorts == {254, 65278, 32766, 65534}

(* C37: while tape playback is not active the EAR level is high and bit 6  *)
(* of every even-port read is 1.                                           *)
C37_EarHighWhenIdle ==
    zx.tape_active = 0 =>
       /\ zx.tape.ear_level = 1
       /\ \A port \in EarPorts : Bit(port_read(zx, port).v, 6) = 1

(***************************************************************************)
(* The audio ring over its whole life: the host opens the sink, writes     *)
(* sample strings, and closes it, in any order; the device answers the     *)
(* status ioctl and every write ioctl as the ioctl's contract allows (it   *)
(* accepts no more frames than it was offered).                            *)
(***************************************************************************)
MaxRingCalls == 3

(* Lengths in bytes of the sample strings: one frame, less than the ring,  *)
(* more than the ring.                                                     *)
RingLens == {2, 12000, 20000}

RingStatusAnswers == {[ok |-> FALSE, delay |-> 0], [ok |-> TRUE, delay |-> 5000]}

(* Frames the device takes when it takes part of an offer. *)
RingPart == 3000

(* Answers of the write ioctl to an offer of n frames: all accepted, part  *)
(* accepted, or EAGAIN.                                                    *)
RingXferAnswers(n) ==
    {[err |-> "", result |-> r] : r \in {n, IF n > RingPart THEN RingPart ELSE n}} \cup
    {[err |-> "EAGAIN", result |-> 0]}

(* zx_audio_init; ok: the device was found, opened and configured. *)
zx_audio_init(a, rate, period, ok) ==
    IF a.initialized # 0 THEN a
    ELSE IF ~ok THEN a
    ELSE ring_reset([a EXCEPT !.sample_rate = rate, !.initialized = 1,
                              !.hw_period_frames = period])

zx_audio_close(a) == ring_reset([a EXCEPT !.initialized = 0])

(* calls: host calls so far; frames: the frames the last write handed to   *)
(* the ring; before: ring_count when that write began; fed: the frames     *)
(* handed to the ring since the program started.  The host numbers its     *)
(* samples: the n-th frame it hands over carries the sample n.             *)
RingObs == [op |-> "init", calls |-> 0, frames |-> 0, before |-> 0, fed |-> 0]

InitRing ==
    /\ audio = AudioOff
    /\ zx = ZeroState
    /\ frame = FrameIdle
    /\ ret = 0
    /\ obs = RingObs

RingCall(a, r, op, frames) ==
    /\ audio' = a
    /\ ret' = r
    /\ obs' = [op |-> op, calls |-> obs.calls + 1, frames |-> frames,
               before |-> audio.ring_count, fed |-> obs.fed + frames]
    /\ UNCHANGED <<zx, frame>>

RingOpen ==
    /\ audio.pc = "idle"
    /\ obs.calls < MaxRingCalls
    /\ \E p \in AudioPeriods, ok \in BOOLEAN :
          RingCall(zx_audio_init(audio, 44100, p, ok), ret, "open", 0)

RingClose ==
    /\ audio.pc = "idle"
    /\ obs.calls < MaxRingCalls
    /\ RingCall(zx_audio_close(audio), ret, "close", 0)

RingWrite ==
    /\ audio.pc = "idle"
    /\ obs.calls < MaxRingCalls
    /\ \E len \in RingLens :
          IF audio.initialized = 0
          THEN RingCall(audio, 0, "write", 0)
          ELSE \E e \in {FlushEnter(EnqueueChunks(audio, [first |-> obs.fed + 1, step |-> 1],
                                                  len \div 2), st) :
                           st \in RingStatusAnswers} :
                  RingCall(e.a, IF e.returned THEN e.result ELSE ret, "write",
                           len \div 2)

RingFlushStep ==
    /\ audio.pc = "flush"
    /\ \E r \in {FlushIter(audio, xfer) : xfer \in RingXferAnswers(FlushOffer(audio))} :
          /\ audio' = r.a
          /\ ret' = IF r.returned THEN r.result ELSE ret
          /\ obs' = [obs EXCEPT !.op = "flush"]
    /\ UNCHANGED <<zx, frame>>

NextRing == RingOpen \/ RingClose \/ RingWrite \/ RingFlushStep

SpecRing == InitRing /\ [][NextRing]_vars

(* The frames queued in the ring, oldest first. *)
RingQueue(a) ==
    [k \in 1 .. a.ring_count |->
        RingAt(a.audio_ring, (a.ring_rpos + k - 1) % ZX_AUDIO_RING_FRAMES)]

(* C38: after any sequence of writes, flushes and closes the ring holds at *)
(* most 8192 frames and its write position is (read position + frame      *)
(* count) mod 8192; the frames queued are, oldest first, the frames most   *)
(* recently handed to the ring in the order they were written; and a write *)
(* leaves queued what was queued and what it wrote, less exactly the       *)
(* oldest frames that did not fit.                                         *)
C38_RingOrder ==
    /\ [](/\ audio.ring_count <= ZX_AUDIO_RING_FRAMES
          /\ audio.ring_wpos =
                (audio.ring_rpos + audio.ring_count) % ZX_AUDIO_RING_FRAMES
          /\ RingQueue(audio) =
                [k \in 1 .. audio.ring_count |-> obs.fed - audio.ring_count + k])
    /\ [](obs.op = "write" =>
            audio.ring_count =
               IF obs.before + obs.frames > ZX_AUDIO_RING_FRAMES
               THEN ZX_AUDIO_RING_FRAMES ELSE obs.before + obs.frames)

(* A write that did not fit into a ring that was part drained: the ring is *)
(* full and wrapped, and the oldest frame queued is not the first written. *)
C38_Witness ==
    /\ obs.op = "write" /\ obs.before > 0
    /\ obs.before + obs.frames > ZX_AUDIO_RING_FRAMES
    /\ audio.ring_count = ZX_AUDIO_RING_FRAMES
    /\ audio.ring_rpos > 0
    /\ RingAt(audio.audio_ring, audio.ring_rpos) = obs.fed - ZX_AUDIO_RING_FRAMES + 1

(***************************************************************************)
(* The AY registers: the machine is created, bytes are written to the AY   *)
(* select and data ports (and to a port that decodes to nothing), and the  *)
(* machine is reset in between.                                            *)
(***************************************************************************)
MaxAyWrites == 4

(* 0xFFFD and 0xC0FD select, 0xBFFD and 0x80FD write data, 0xFFFF is not   *)
(* decoded.                                                                *)
AyRegPorts == {65533, 49405, 49149, 33021, 65535}

(* Register numbers with and without high bits set, and data bytes with    *)
(* bits above the width of every register.                                 *)
AyRegValues == {1, 6, 13, 24, 31, 32, 246, 255}

AyRegObs == [op |-> "new", writes |-> 0, port |-> 0, value |-> 0]

InitAyReg ==
    /\ \E m \in {MACHINE_48K, MACHINE_128K, MACHINE_PLUS2} : zx = zx_new(m)
    /\ obs = AyRegObs
    /\ frame = FrameIdle
    /\ ret = 0
    /\ audio = AudioOff

AyRegWrite ==
    /\ obs.writes < MaxAyWrites
    /\ \E port \in AyRegPorts, value \in AyRegValues :
          /\ zx' = port_write(zx, port, value)
          /\ obs' = [op |-> "write", writes |-> obs.writes + 1, port |-> port,
                     value |-> value]
    /\ UNCHANGED ret
    /\ UNCHANGED frame
    /\ UNCHANGED audio

AyRegReset ==
    /\ obs.op = "write"
    /\ zx' = zx_reset(zx)
    /\ obs' = [obs EXCEPT !.op = "reset"]
    /\ UNCHANGED ret
    /\ UNCHANGED frame
    /\ UNCHANGED audio

NextAyReg == AyRegWrite \/ AyRegReset

SpecAyReg == InitAyReg /\ [][NextAyReg]_vars

(* C39: after any sequence of select and data writes on an instance        *)
(* started from create or reset, the selected register is in 0..15,        *)
(* registers 1, 3 and 5 are at most 0x0F, register 6 at most 0x1F,         *)
(* registers 8, 9 and 10 at most 0x1F and register 13 at most 0x0F; on a   *)
(* 48K instance no port write changes an AY register or the selection.     *)
C39_AyRegisterWidths ==
    /\ [](/\ zx.ay.selected_reg \in 0 .. 15
          /\ \A r \in {1, 3, 5, 13} : zx.ay.regs[r + 1] \in 0 .. 15
          /\ \A r \in {6, 8, 9, 10} : zx.ay.regs[r + 1] \in 0 .. 31
          /\ \A r \in 0 .. 15 : zx.ay.regs[r + 1] \in 0 .. 255)
    /\ [][obs'.op = "write" /\ zx.machine_type = MACHINE_48K
            => zx'.ay = zx.ay]_vars

(* On a 128K, 0xFF went to the envelope shape register after 0xFF went to  *)
(* the noise register: both kept their low bits only.                      *)
C39_Witness ==
    /\ zx.machine_type = MACHINE_128K
    /\ obs.op = "write" /\ obs.value = 255 /\ obs.port = 33021
    /\ zx.ay.selected_reg = 13
    /\ zx.ay.regs[14] = 15
    /\ zx.ay.regs[7] = 31

(***************************************************************************)
(* Port reads: the machine is created with the tape signal low or high     *)
(* (low is what a tape load or a pulse of a playing tape leaves), the host *)
(* presses and releases keys, and ports are read.                          *)
(***************************************************************************)
MaxPortKeys == 2

(* Even ports selecting one half-row, two, all and none, with and without  *)
(* the low byte 0xFE; odd ports with the low byte 0x1F and without.        *)
ReadPorts == {65278, 65022, 32766, 254, 65534, 64512, 31, 65311, 65533, 255}

(* The half-rows whose keys the host uses: the rows the ports above select *)
(* alone, together and not at all.                                         *)
PortKeyRows == {0, 1, 7}

PortObs == [op |-> "new", keys |-> 0, port |-> 0]

InitPort ==
    /\ \E m \in {MACHINE_48K, MACHINE_128K, MACHINE_PLUS2}, e \in {0, 1} :
          zx = [zx_new(m) EXCEPT !.tape.ear_level = e]
    /\ obs = PortObs
    /\ frame = FrameIdle
    /\ ret = 0
    /\ audio = AudioOff

PortKey ==
    /\ obs.keys < MaxPortKeys
    /\ \E down \in BOOLEAN, row \in PortKeyRows, bit \in 0 .. 4 :
          /\ zx' = IF down THEN zx_key_down(zx, LuaInteger(0, row), LuaInteger(0, bit))
                           ELSE zx_key_up(zx, LuaInteger(0, row), LuaInteger(0, bit))
          /\ obs' = [obs EXCEPT !.op = "key", !.keys = @ + 1]
    /\ ret' = 1
    /\ UNCHANGED frame
    /\ UNCHANGED audio

PortRead ==
    /\ \E port \in ReadPorts :
          /\ zx' = port_read(zx, port).z
          /\ ret' = port_read(zx, port).v
          /\ obs' = [obs EXCEPT !.op = "read", !.port = port]
    /\ UNCHANGED frame
    /\ UNCHANGED audio

NextPort == PortKey \/ PortRead

SpecPort == InitPort /\ [][NextPort]_vars

(* The half-rows whose select line, one of the address bits 8..15, is 0. *)
SelectedRows(port) == {row \in 0 .. 7 : Bit(port, row + 8) = 0}

(* C40: a read of an even port returns a byte whose bits 7 and 5 are 1,    *)
(* whose bit 6 is the tape EAR level and whose bits 0..4 are the AND of    *)
(* those bits of every selected keyboard half-row, all ones when no        *)
(* selected key is down; a read of an odd port with low byte 0x1F returns  *)
(* 0.                                                                      *)
C40_PortRead ==
    obs.op = "read" =>
       /\ obs.port % 2 = 0 =>
             /\ ret \in 0 .. 255
             /\ Bit(ret, 7) = 1 /\ Bit(ret, 5) = 1
             /\ Bit(ret, 6) = (IF zx.tape.ear_level # 0 THEN 1 ELSE 0)
             /\ \A b \in 0 .. 4 :
                   Bit(ret, b) =
                      IF \A row \in SelectedRows(obs.port) :
                            Bit(zx.keyboard_rows[row], b) = 1
                      THEN 1 ELSE 0
       /\ (obs.port % 2 = 1 /\ obs.port % 256 = 31) => ret = 0

(* A read of 0xFDFE with the tape signal low and two keys of half-row 1    *)
(* down: 0xA0 with bits 1, 3 and 4 set.                                    *)
C40_Witness ==
    /\ obs.op = "read" /\ obs.port = 65022
    /\ zx.tape.ear_level = 0
    /\ zx.keyboard_rows[1] = 250
    /\ ret = 186
====
